---------------------------- MODULE Spec2Model ----------------------------
(***************************************************************************)
(* A model of multiprocess_pp_issues_mets_alto_full.py: the extraction of  *)
(* newspaper articles from a METS structural document and ALTO pages.      *)
(*                                                                         *)
(* Text is a sequence of one-character strings, so that the regular        *)
(* expressions of the source are computed character by character.          *)
(***************************************************************************)
EXTENDS Integers, Sequences, FiniteSets, TLC

VARIABLES
    ct_pc,      \* clean_text driver: "input", "cleaned", "recleaned"
    ct_in,      \* the argument of clean_text: [kind, chars]
    ct_out,     \* clean_text(ct_in)
    ct_out2,    \* clean_text(ct_out)
    tb_pc,          \* process_text_block driver: "input", "loop", "done"
    block_strings,  \* the String elements of the block, in document order
    tb_i,           \* i, the 0-based index of the while loop
    skip_next,
    words,
    word_confidences,
    total_string,   \* the returned text
    mets_pc,            \* mets2codes_inner, within one article div
    article_key,        \* issue_article_id
    article_title,
    title_block_ids,
    traversal,          \* the (block_id, order_val) pairs in document order
    all_content_divs,
    text_block_ids,
    order_map,
    non_text_elements,
    child_open,         \* the loop of line 217 runs for the current child_div
    art_dict,
    is_pc,              \* process_issue
    page_files,
    article_codes,      \* the items of the dictionary, in insertion order
    page_info,
    art_i,              \* items of article_codes the loop of line 518 has taken
    texts_dict,
    skipped_articles,
    parquet,            \* the table written for the issue
    result,             \* what process_issue returns
    doc_pc,             \* mets2codes_inner on one structural document
    mets_doc,           \* the article div of the document, as a tree
    doc_codes,          \* the returned art_dict, its items in insertion order
    pg_pc,              \* parse_pages and process_block on one page file
    pg_file,            \* the page file
    pg_info,            \* the returned page_info
    pg_block_id,        \* the argument of process_block
    pg_block,           \* what process_block returns
    ar_pc,              \* the loop body of extract_text_from_alto, one article
    ar_data,            \* data, the value of the article in article_codes
    ar_title_data,      \* title_data
    ar_content_data,    \* content_data
    ar_record,          \* what combine_article_data returns
    bt_pc,              \* batch_process_issues
    bt_issues,          \* issue_items, and what process_issue meets in each
    bt_max_workers,     \* the argument max_workers
    bt_cpus,            \* cpu_count()
    bt_next,            \* items of issue_items handed to the pool so far
    bt_running,         \* per worker process: the item it works on, or 0
    bt_done,            \* the tuples the workers have returned, by item
    bt_results,         \* results
    bt_returned         \* (successful, failed, stats)

ct_vars == <<ct_pc, ct_in, ct_out, ct_out2>>

tb_vars == <<tb_pc, block_strings, tb_i, skip_next, words, word_confidences,
             total_string>>

mets_vars == <<mets_pc, article_key, article_title, title_block_ids, traversal,
               all_content_divs, text_block_ids, order_map, non_text_elements,
               child_open, art_dict>>

issue_vars == <<is_pc, page_files, article_codes, page_info, art_i, texts_dict,
                skipped_articles, parquet, result>>

doc_vars == <<doc_pc, mets_doc, doc_codes>>

pg_vars == <<pg_pc, pg_file, pg_info, pg_block_id, pg_block>>

ar_vars == <<ar_pc, ar_data, ar_title_data, ar_content_data, ar_record>>

bt_vars == <<bt_pc, bt_issues, bt_max_workers, bt_cpus, bt_next, bt_running,
             bt_done, bt_results, bt_returned>>

vars == <<ct_vars, tb_vars, mets_vars, issue_vars, doc_vars, pg_vars, ar_vars,
          bt_vars>>

\* What the actions of one part leave alone.
not_ct_vars == <<tb_vars, mets_vars, issue_vars, doc_vars, pg_vars, ar_vars,
    bt_vars>>
not_tb_vars == <<ct_vars, mets_vars, issue_vars, doc_vars, pg_vars, ar_vars,
    bt_vars>>
not_mets_vars == <<ct_vars, tb_vars, issue_vars, doc_vars, pg_vars, ar_vars,
    bt_vars>>
not_issue_vars == <<ct_vars, tb_vars, mets_vars, doc_vars, pg_vars, ar_vars,
    bt_vars>>
not_doc_vars == <<ct_vars, tb_vars, mets_vars, issue_vars, pg_vars, ar_vars,
    bt_vars>>
not_pg_vars == <<ct_vars, tb_vars, mets_vars, issue_vars, doc_vars, ar_vars,
    bt_vars>>
not_ar_vars == <<ct_vars, tb_vars, mets_vars, issue_vars, doc_vars, pg_vars,
    bt_vars>>
not_bt_vars == <<ct_vars, tb_vars, mets_vars, issue_vars, doc_vars, pg_vars, ar_vars>>

(***************************************************************************)
(* Bounds                                                                  *)
(***************************************************************************)
MaxTextLen == 4
MaxTokens == 2
MaxArticleSize == 5
MaxDivAreas == 2
MaxPages == 2
MaxArticles == 2
MaxSubDivs == 2
MaxNamespaces == 2
MaxIds == 2
MaxIssues == 2
MaxWorkers == 2
MaxCpus == 2

\* The characters input text is drawn from.
CleanChars == {"a", "1", "-", " ", "'", "\\"}

(***************************************************************************)
(* Character classes and runs                                              *)
(***************************************************************************)
\* Step at the value of x: TLC hands an argument over by name, and the results
\* of the longer steps are taken by value, once.
Apply(Step(_), x) == CHOOSE r \in {Step(v) : v \in {x}} : TRUE

Digits == <<"0", "1", "2", "3", "4", "5", "6", "7", "8", "9">>

IsDigit(c) == \E d \in 1..10 : Digits[d] = c

IsSpace(c) == c \in {" ", "\t", "\n", "\r"}

DigitValue(c) == (CHOOSE d \in 1..10 : Digits[d] = c) - 1

\* The length of the longest run of digits of s that starts at position i.
RECURSIVE DigitRun(_, _)
DigitRun(s, i) ==
    IF i <= Len(s) /\ IsDigit(s[i]) THEN 1 + DigitRun(s, i + 1) ELSE 0

RECURSIVE SpaceRun(_, _)
SpaceRun(s, i) ==
    IF i <= Len(s) /\ IsSpace(s[i]) THEN 1 + SpaceRun(s, i + 1) ELSE 0

RECURSIVE HyphenRun(_, _)
HyphenRun(s, i) ==
    IF i <= Len(s) /\ s[i] = "-" THEN 1 + HyphenRun(s, i + 1) ELSE 0

Hyphens(k) == [j \in 1..k |-> "-"]

\* Whether the literal text pat occurs in s at position i.
HasPrefixAt(s, i, pat) ==
    /\ i + Len(pat) - 1 <= Len(s)
    /\ \A j \in 1..Len(pat) : s[i + j - 1] = pat[j]

\* int() of a run of digits, and str() of a natural number.
RECURSIVE ParseInt(_)
ParseInt(ds) ==
    IF ds = <<>> THEN 0
    ELSE 10 * ParseInt(SubSeq(ds, 1, Len(ds) - 1)) + DigitValue(ds[Len(ds)])

RECURSIVE Decimal(_)
Decimal(k) ==
    IF k < 10 THEN <<Digits[k + 1]>>
    ELSE Decimal(k \div 10) \o <<Digits[(k % 10) + 1]>>

(***************************************************************************)
(* clean_text                                                              *)
(***************************************************************************)
HyphenMarkerHead == <<"_", "_", "H", "Y", "P", "H", "E", "N", "_">>
MarkerTail == <<"_", "_">>
HyphenMarker(k) == HyphenMarkerHead \o Decimal(k) \o MarkerTail
NumHyphMarker == <<"_", "_", "N", "U", "M", "H", "Y", "P", "H", "_", "_">>

\* re.sub(r'\\([\'"\n\r\t])', lambda m: ' ' if m.group(1) in 'nrt' else m.group(1))
\* The class holds the quote characters and the newline, carriage return and
\* tab characters themselves; the lambda tests for the letters n, r, t.
EscapedChars == {"'", "\"", "\n", "\r", "\t"}

RECURSIVE UnescapeFrom(_, _)
UnescapeFrom(s, i) ==
    IF i > Len(s) THEN <<>>
    ELSE IF s[i] = "\\" /\ i < Len(s) /\ s[i + 1] \in EscapedChars
         THEN <<(IF s[i + 1] \in {"n", "r", "t"} THEN " " ELSE s[i + 1])>>
              \o UnescapeFrom(s, i + 2)
         ELSE <<s[i]>> \o UnescapeFrom(s, i + 1)

Unescape(s) == UnescapeFrom(s, 1)

\* re.sub(r'(\-{2,})', lambda m: f'__HYPHEN_{len(m.group(1))}__', text)
RECURSIVE ProtectHyphensFrom(_, _)
ProtectHyphensFrom(s, i) ==
    IF i > Len(s) THEN <<>>
    ELSE LET h == HyphenRun(s, i) IN
         IF h >= 2 THEN HyphenMarker(h) \o ProtectHyphensFrom(s, i + h)
         ELSE <<s[i]>> \o ProtectHyphensFrom(s, i + 1)

ProtectHyphens(s) == ProtectHyphensFrom(s, 1)

\* re.sub(r'(\d+\'?)(\s+)(\-+)', r'\1__NUMHYPH__\3', text)
RECURSIVE ProtectNumHyphFrom(_, _)
ProtectNumHyphFrom(s, i) ==
    IF i > Len(s) THEN <<>>
    ELSE LET d == DigitRun(s, i)
             a == IF d >= 1 /\ i + d <= Len(s) /\ s[i + d] = "'" THEN 1 ELSE 0
             w == SpaceRun(s, i + d + a)
             h == HyphenRun(s, i + d + a + w)
         IN IF d >= 1 /\ w >= 1 /\ h >= 1
            THEN SubSeq(s, i, i + d + a - 1) \o NumHyphMarker \o Hyphens(h)
                 \o ProtectNumHyphFrom(s, i + d + a + w + h)
            ELSE <<s[i]>> \o ProtectNumHyphFrom(s, i + 1)

ProtectNumHyph(s) == ProtectNumHyphFrom(s, 1)

\* text.split(): the maximal runs of non-whitespace characters.
RECURSIVE NonSpaceRun(_, _)
NonSpaceRun(s, i) ==
    IF i <= Len(s) /\ ~IsSpace(s[i]) THEN 1 + NonSpaceRun(s, i + 1) ELSE 0

RECURSIVE SplitFrom(_, _)
SplitFrom(s, i) ==
    IF i > Len(s) THEN <<>>
    ELSE IF IsSpace(s[i]) THEN SplitFrom(s, i + 1)
    ELSE LET n == NonSpaceRun(s, i) IN
         <<SubSeq(s, i, i + n - 1)>> \o SplitFrom(s, i + n)

Split(s) == SplitFrom(s, 1)

\* " ".join(parts)
RECURSIVE JoinSpace(_)
JoinSpace(parts) ==
    IF parts = <<>> THEN <<>>
    ELSE IF Len(parts) = 1 THEN parts[1]
    ELSE parts[1] \o <<" ">> \o JoinSpace(Tail(parts))

\* text = " ".join(text.split())
CollapseWhitespace(s) == JoinSpace(Split(s))

\* re.sub(r'__HYPHEN_(\d+)__', lambda m: '-' * int(m.group(1)), text)
RECURSIVE RestoreHyphensFrom(_, _)
RestoreHyphensFrom(s, i) ==
    IF i > Len(s) THEN <<>>
    ELSE LET p == i + Len(HyphenMarkerHead)
             d == IF HasPrefixAt(s, i, HyphenMarkerHead) THEN DigitRun(s, p) ELSE 0
         IN IF d >= 1 /\ HasPrefixAt(s, p + d, MarkerTail)
            THEN Hyphens(ParseInt(SubSeq(s, p, p + d - 1)))
                 \o RestoreHyphensFrom(s, p + d + Len(MarkerTail))
            ELSE <<s[i]>> \o RestoreHyphensFrom(s, i + 1)

RestoreHyphens(s) == RestoreHyphensFrom(s, 1)

\* re.sub(r'__NUMHYPH__', '-', text)
RECURSIVE RestoreNumHyphFrom(_, _)
RestoreNumHyphFrom(s, i) ==
    IF i > Len(s) THEN <<>>
    ELSE IF HasPrefixAt(s, i, NumHyphMarker)
         THEN <<"-">> \o RestoreNumHyphFrom(s, i + Len(NumHyphMarker))
         ELSE <<s[i]>> \o RestoreNumHyphFrom(s, i + 1)

RestoreNumHyph(s) == RestoreNumHyphFrom(s, 1)

\* re.sub(r'(\d+\'?)-(\-+)', r'\1-\2', text)
RECURSIVE TightenHyphensFrom(_, _)
TightenHyphensFrom(s, i) ==
    IF i > Len(s) THEN <<>>
    ELSE LET d == DigitRun(s, i)
             a == IF d >= 1 /\ i + d <= Len(s) /\ s[i + d] = "'" THEN 1 ELSE 0
             q == i + d + a
             h == IF q <= Len(s) /\ s[q] = "-" THEN HyphenRun(s, q + 1) ELSE 0
         IN IF d >= 1 /\ h >= 1
            THEN SubSeq(s, i, q - 1) \o <<"-">> \o Hyphens(h)
                 \o TightenHyphensFrom(s, q + 1 + h)
            ELSE <<s[i]>> \o TightenHyphensFrom(s, i + 1)

TightenHyphens(s) == TightenHyphensFrom(s, 1)

\* A Python value handed to clean_text: None, a str, or another object with
\* the characters str() gives for it.
NoneValue == [kind |-> "none", chars |-> <<>>]
Str(s) == [kind |-> "str", chars |-> s]

clean_text(text) ==
    IF text.kind # "str"
    THEN (IF text.kind = "none" THEN <<>> ELSE text.chars)
    ELSE Apply(TightenHyphens,
           Apply(RestoreNumHyph,
             Apply(RestoreHyphens,
               Apply(CollapseWhitespace,
                 Apply(ProtectNumHyph,
                   Apply(ProtectHyphens,
                     Apply(Unescape, text.chars)))))))

(***************************************************************************)
(* process_text_block                                                      *)
(***************************************************************************)
\* A String element: s.get("CONTENT", ""), s.get("SUBS_TYPE", ""),
\* s.get("SUBS_CONTENT", ""), s.get("WC", "0"); a missing attribute has its
\* default here.
Token(content, subs_type, subs_content, wc) ==
    [CONTENT |-> content, SUBS_TYPE |-> subs_type,
     SUBS_CONTENT |-> subs_content, WC |-> wc]

\* Where a pattern's $ matches: at the end, or before a final newline.
AtEnd(s, p) == p = Len(s) + 1 \/ (p = Len(s) /\ s[p] = "\n")

\* re.match(r'^-{2,}$', content)
IsHyphenRun2(content) ==
    LET h == HyphenRun(content, 1) IN h >= 2 /\ AtEnd(content, h + 1)

\* re.match(r'^\d+\'?$', content)
IsBareNumber(content) ==
    LET d == DigitRun(content, 1) IN
    /\ d >= 1
    /\ \/ AtEnd(content, d + 1)
       \/ d + 1 <= Len(content) /\ content[d + 1] = "'" /\ AtEnd(content, d + 2)

\* re.match(r'^-+', next_content)
StartsWithHyphen(content) == HyphenRun(content, 1) >= 1

\* re.search(r'-{2,}', subs_content)
HasHyphenRun2(content) == \E p \in 1..Len(content) : HyphenRun(content, p) >= 2

\* float(wc), in hundredths; [ok |-> FALSE] stands for ValueError.
ParseFloat(wc) ==
    CHOOSE r \in {
       IF d >= 1 /\ d = Len(wc)
       THEN [ok |-> TRUE, value |-> 100 * ParseInt(wc)]
       ELSE IF d >= 1 /\ f \in 1..2 /\ d + 1 + f = Len(wc)
       THEN [ok |-> TRUE,
             value |-> 100 * ParseInt(SubSeq(wc, 1, d))
                       + (IF f = 1 THEN 10 ELSE 1) * ParseInt(SubSeq(wc, d + 2, d + 1 + f))]
       ELSE [ok |-> FALSE, value |-> 0]
       : d \in {DigitRun(wc, 1)},
         f \in {IF DigitRun(wc, 1) + 1 <= Len(wc) /\ wc[DigitRun(wc, 1) + 1] = "."
                THEN DigitRun(wc, DigitRun(wc, 1) + 2) ELSE 0} } : TRUE

\* try: word_confidence = float(wc)  except: word_confidence = 0.0
WordConfidence(s) == IF ParseFloat(s.WC).ok THEN ParseFloat(s.WC).value ELSE 0

\* The test of line 359: the next content is non-empty and starts with
\* hyphens, or the next token is a HypPart2 and its content starts with hyphens.
NumericGuardAsClaimed(next_s) ==
    /\ next_s.CONTENT # <<>>
    /\ \/ HyphenRun(next_s.CONTENT, 1) = Len(next_s.CONTENT)
       \/ next_s.SUBS_TYPE = "HypPart2" /\ StartsWithHyphen(next_s.CONTENT)

NumericGuard(next_s) ==
    /\ next_s.CONTENT # <<>>
    /\ \/ StartsWithHyphen(next_s.CONTENT)
       \/ next_s.SUBS_TYPE = "HypPart2" /\ StartsWithHyphen(next_s.CONTENT)

\* The test of lines 373-375, without the look at SUBS_CONTENT's hyphens.
MergeGuardNoSubsCheck(s, next_s) ==
    /\ s.SUBS_CONTENT # <<>>
    /\ ~(next_s.CONTENT # <<>> /\ IsHyphenRun2(next_s.CONTENT))

MergeGuard(s, next_s) ==
    /\ s.SUBS_CONTENT # <<>>
    /\ ~HasHyphenRun2(s.SUBS_CONTENT)
    /\ ~(next_s.CONTENT # <<>> /\ IsHyphenRun2(next_s.CONTENT))

\* The loop's variables.
TextLoop(i, skip, ws, confs) ==
    [i |-> i, skip_next |-> skip, words |-> ws, word_confidences |-> confs]

TextLoopStart == TextLoop(0, FALSE, <<>>, <<>>)

\* An emission after which the next token is skipped in every case.
EmitAndSkip(st, w, c, skip) ==
    TextLoop(st.i + 1, TRUE, Append(st.words, w), Append(st.word_confidences, c))

\* An emission that leaves out the confidence of a merged word.
EmitNoMergeConfidence(st, w, c, skip) ==
    TextLoop(st.i + 1, skip, Append(st.words, w),
             IF skip THEN st.word_confidences ELSE Append(st.word_confidences, c))

\* One emission: words.append(w); word_confidences.append(c); i += 1
Emit(st, w, c, skip) ==
    TextLoop(st.i + 1, skip, Append(st.words, w), Append(st.word_confidences, c))

\* One pass through the body of `while i < len(block_strings)`.
TextStep(strings, st) ==
    IF st.skip_next THEN TextLoop(st.i + 1, FALSE, st.words, st.word_confidences)
    ELSE
    LET s == strings[st.i + 1]
        content == s.CONTENT
        subs_type == s.SUBS_TYPE
        wc == WordConfidence(s)
        has_next == st.i + 1 < Len(strings)
        next_s == strings[st.i + 2]
    IN
    \* Case 1
    IF content # <<>> /\ IsHyphenRun2(content) THEN Emit(st, content, wc, FALSE)
    \* Case 2
    ELSE IF /\ IsBareNumber(content) /\ subs_type = "HypPart1" /\ has_next
            /\ NumericGuard(next_s)
    THEN Emit(st, content \o <<"-">>, wc, FALSE)
    \* Case 3
    ELSE IF subs_type = "HypPart1" /\ has_next /\ next_s.SUBS_TYPE = "HypPart2"
    THEN (IF MergeGuard(s, next_s)
          THEN Emit(st, s.SUBS_CONTENT, wc, TRUE)
          ELSE Emit(st, content, wc, FALSE))
    \* Case 4
    ELSE Emit(st, content, wc, FALSE)

\* The loop run to its end from st.
RECURSIVE TextRun(_, _)
TextRun(strings, st) ==
    IF st.i < Len(strings) THEN TextRun(strings, TextStep(strings, st)) ELSE st

\* process_text_block(block_strings): (total_string, word_confidences)
process_text_block(strings) ==
    IF strings = <<>> THEN [text |-> <<>>, confidences |-> <<>>]
    ELSE LET Return(st) ==
                 [text |-> JoinSpace(st.words), confidences |-> st.word_confidences]
         IN Apply(Return, TextRun(strings, TextLoopStart))

(***************************************************************************)
(* The token alphabet of the text-block specification                      *)
(***************************************************************************)
Contents ==
    { <<"-", "-">>, <<"-">>, <<"-", "a">>, <<"1">>, <<"1", "'">>,
      <<"c", "o", "m", "-">>, <<"p", "u", "t", "e", "r">> }

SubsContents ==
    { <<>>, <<"c", "o", "m", "p", "u", "t", "e", "r">>, <<"a", "-", "-", "b">> }

WordConfidences == { <<"0", ".", "9">>, <<"x">> }

\* SUBS_CONTENT is read of a HypPart1 token only: the other tokens carry none.
Tokens ==
    { Token(c, t, sc, wc) : c \in Contents, t \in {"", "HypPart2"},
                            sc \in {<<>>}, wc \in WordConfidences }
    \cup
    { Token(c, "HypPart1", sc, wc) : c \in Contents, sc \in SubsContents,
                                     wc \in WordConfidences }

(***************************************************************************)
(* mets2codes_inner                                                        *)
(***************************************************************************)
EmptyMap == [x \in {} |-> 0]

Contains(seq, x) == \E k \in 1..Len(seq) : seq[k] = x

\* f"{issue_code}_{article_id[7:]}" if len(article_id) > 7
\* else f"{issue_code}_{article_id}"
IssueArticleId(issue_code, article_id) ==
    IF Len(article_id) > 7
    THEN issue_code \o <<"_">> \o SubSeq(article_id, 8, Len(article_id))
    ELSE issue_code \o <<"_">> \o article_id

\* Lines 160-162: one area under a HEADING div.
TitleArea(title_ids, block_id) ==
    IF block_id # <<>> /\ ~Contains(title_ids, block_id)
    THEN Append(title_ids, block_id)
    ELSE title_ids

\* Lines 178-182: int(order_str), 999 on ValueError.
OrderValue(order_str) ==
    IF order_str # <<>> /\ DigitRun(order_str, 1) = Len(order_str)
    THEN ParseInt(order_str)
    ELSE 999

ExcludeContentTypes == {"ILLUSTRATION", "IMAGE", "CAPTION"}

Contribution(block_id, order_val) == [block_id |-> block_id, order_val |-> order_val]

\* Lines 185-188: the direct areas of one div, each with the div's order.
\* (The div element of the tuple is never read again and is left out.)
RECURSIVE DirectAreas(_, _)
DirectAreas(areas, order_val) ==
    IF areas = <<>> THEN <<>>
    ELSE (IF areas[1] # <<>> THEN <<Contribution(areas[1], order_val)>> ELSE <<>>)
         \o DirectAreas(Tail(areas), order_val)

\* Lines 168-188: one div of the content pass.
ContentDiv(divs, div_type, order_str, areas) ==
    IF div_type = "" THEN divs
    ELSE IF div_type \in ExcludeContentTypes THEN divs
    ELSE divs \o DirectAreas(areas, OrderValue(order_str))

\* list.sort(key=lambda x: x[2]) is stable: an element goes behind the
\* elements whose key is smaller or equal.
RECURSIVE InsertAhead(_, _)
InsertAhead(sorted, x) ==
    IF sorted = <<>> THEN <<x>>
    ELSE IF sorted[1].order_val < x.order_val
         THEN <<sorted[1]>> \o InsertAhead(Tail(sorted), x)
         ELSE <<x>> \o sorted

RECURSIVE InsertBehind(_, _)
InsertBehind(sorted, x) ==
    IF sorted = <<>> THEN <<x>>
    ELSE IF sorted[1].order_val <= x.order_val
         THEN <<sorted[1]>> \o InsertBehind(Tail(sorted), x)
         ELSE <<x>> \o sorted

RECURSIVE SortedPrefix(_, _)
SortedPrefix(divs, n) ==
    IF n = 0 THEN <<>> ELSE InsertBehind(SortedPrefix(divs, n - 1), divs[n])

RECURSIVE SortedPrefixUnstable(_, _)
SortedPrefixUnstable(divs, n) ==
    IF n = 0 THEN <<>> ELSE InsertAhead(SortedPrefixUnstable(divs, n - 1), divs[n])

SortUnstable(divs) == SortedPrefixUnstable(divs, Len(divs))

\* Line 191: all_content_divs.sort(key=lambda x: x[2])
SortByOrder(divs) == SortedPrefix(divs, Len(divs))

\* Lines 198-201 with the test of line 199 left out.
SequenceStepNoTest(acc, idx, block_id) ==
    [ids |-> Append(acc.ids, block_id), map |-> (block_id :> idx) @@ acc.map]

\* Lines 198-201: one element of the sorted list; idx is enumerate's index.
SequenceStep(acc, idx, block_id) ==
    IF ~Contains(acc.ids, block_id)
    THEN [ids |-> Append(acc.ids, block_id), map |-> (block_id :> idx) @@ acc.map]
    ELSE acc

RECURSIVE SequencePass(_, _)
SequencePass(divs, n) ==
    IF n = 0 THEN [ids |-> <<>>, map |-> EmptyMap]
    ELSE SequenceStep(SequencePass(divs, n - 1), n - 1, divs[n].block_id)

\* Lines 226-229 with the test of line 227 on the id alone.
WalkAreaNoTest(acc, block_id) ==
    IF block_id # <<>>
    THEN [ids |-> Append(acc.ids, block_id),
          map |-> (block_id :> Cardinality(DOMAIN acc.map)) @@ acc.map]
    ELSE acc

\* Lines 226-229: one area under a sub-division that is not excluded;
\* len(order_map) is the position given.
WalkArea(acc, block_id) ==
    IF block_id # <<>> /\ ~Contains(acc.ids, block_id)
    THEN [ids |-> Append(acc.ids, block_id),
          map |-> (block_id :> Cardinality(DOMAIN acc.map)) @@ acc.map]
    ELSE acc

RECURSIVE WalkAreas(_, _)
WalkAreas(acc, areas) ==
    IF areas = <<>> THEN acc
    ELSE WalkAreas(WalkArea(acc, areas[1]), Tail(areas))

\* Lines 206-214: whether a direct child div of the article is recorded.
ChildTag(div_type, body_has_text) ==
    IF div_type # "" /\ div_type # "HEADING"
    THEN (IF div_type = "BODY"
          THEN (IF ~body_has_text THEN <<div_type>> ELSE <<>>)
          ELSE <<div_type>>)
    ELSE <<>>

\* Line 219
SubTypeRecorded(sub_type) ==
    sub_type # "" /\ sub_type \notin {"TEXT", "HEADING", "BODY_CONTENT"}

\* Line 232: the value stored for an article.
ArticleStructure(title, title_ids, text_ids, tags, map) ==
    [title |-> title, title_block_ids |-> title_ids, text_block_ids |-> text_ids,
     non_text_elements |-> tags, order_map |-> map]

(***************************************************************************)
(* The values the structural document is drawn from                        *)
(***************************************************************************)
P1_TB1 == <<"P", "1", "_", "T", "B", "1">>
P1_CB2 == <<"P", "1", "_", "C", "B", "2">>
P2_TB1 == <<"P", "2", "_", "T", "B", "1">>

\* BEGIN of an area; <<>> is an area without one.
MetsBlockIds == {P1_TB1, P1_CB2, P2_TB1}
AreaBegins == MetsBlockIds \cup {<<>>}

\* div.get("ORDER", "999"): 999 is also what a div without ORDER gives.
OrderStrings == { <<"1">>, <<"x">>, <<"9", "9", "9">> }

ContentDivTypes == {"", "TEXT", "TABLE", "CAPTION"}
ChildDivTypes == {"", "HEADING", "BODY", "TABLE"}
SubDivTypes == {"", "TEXT", "TABLE", "CAPTION"}

IssueCode == <<"N", "Z">>
Untitled == <<"U", "N", "T", "I", "T", "L", "E", "D">>
News == <<"N", "e", "w", "s">>
\* article.attrib.get("DMDID", ""), article.attrib.get("LABEL", "UNTITLED")
DmdIds == { <<>>, <<"M", "O", "D", "S", "M", "D", "_", "A", "1">> }
Labels == { Untitled, News }

\* The title and content passes meet two of the ids, the walk all of them.
PassBegins == {P1_TB1, P1_CB2, <<>>}

AreaLists(begins, n) ==
    UNION { [1..k -> begins] : k \in 0..n }

(***************************************************************************)
(* mets2codes_inner over a whole structural document                       *)
(***************************************************************************)
Div(div_type, order_str, areas) ==
    [TYPE |-> div_type, ORDER |-> order_str, areas |-> areas]

SubDiv(sub_type, areas) == [TYPE |-> sub_type, areas |-> areas]

ChildDiv(div_type, body_has_text, sub_divs) ==
    [TYPE |-> div_type, has_text |-> body_has_text, sub_divs |-> sub_divs]

\* An article div: its attributes and the lists its XPath queries return.
ArticleDiv(dmd_id, label, title_areas, content_divs, child_divs) ==
    [DMDID |-> dmd_id, LABEL |-> label, title_areas |-> title_areas,
     content_divs |-> content_divs, child_divs |-> child_divs]

\* Lines 156-162
RECURSIVE TitlePass(_, _)
TitlePass(areas, n) ==
    IF n = 0 THEN <<>> ELSE TitleArea(TitlePass(areas, n - 1), areas[n])

\* Lines 165-188
RECURSIVE ContentPass(_, _)
ContentPass(divs, n) ==
    IF n = 0 THEN <<>>
    ELSE ContentDiv(ContentPass(divs, n - 1), divs[n].TYPE, divs[n].ORDER,
                    divs[n].areas)

\* Lines 217-229: one sub_div; acc holds the id list, the order map and the tags.
SubDivStep(acc, sub) ==
    IF SubTypeRecorded(sub.TYPE)
    THEN LET walked == IF sub.TYPE \notin ExcludeContentTypes
                       THEN WalkAreas([ids |-> acc.ids, map |-> acc.map], sub.areas)
                       ELSE [ids |-> acc.ids, map |-> acc.map]
         IN [ids |-> walked.ids, map |-> walked.map,
             tags |-> Append(acc.tags, sub.TYPE)]
    ELSE acc

RECURSIVE SubDivPass(_, _, _)
SubDivPass(acc, subs, n) ==
    IF n = 0 THEN acc ELSE SubDivStep(SubDivPass(acc, subs, n - 1), subs[n])

\* Lines 205-229: one child_div.
ChildDivStep(acc, child) ==
    IF child.TYPE # "" /\ child.TYPE # "HEADING"
    THEN SubDivPass([ids |-> acc.ids, map |-> acc.map,
                     tags |-> acc.tags \o ChildTag(child.TYPE, child.has_text)],
                    child.sub_divs, Len(child.sub_divs))
    ELSE acc

RECURSIVE ChildDivPass(_, _, _)
ChildDivPass(acc, children, n) ==
    IF n = 0 THEN acc
    ELSE ChildDivStep(ChildDivPass(acc, children, n - 1), children[n])

\* Lines 152-232: the value stored for one article div.
ArticleCodes(article) ==
    LET sorted == SortByOrder(ContentPass(article.content_divs,
                                          Len(article.content_divs)))
        seq == SequencePass(sorted, Len(sorted))
        walked == ChildDivPass([ids |-> seq.ids, map |-> seq.map, tags |-> <<>>],
                               article.child_divs, Len(article.child_divs))
    IN ArticleStructure(article.LABEL,
                        TitlePass(article.title_areas, Len(article.title_areas)),
                        walked.ids, walked.tags, walked.map)

\* d[key] = value on a dict kept as the list of its items in insertion order.
DictSet(items, key, value) ==
    IF \E k \in 1..Len(items) : items[k].key = key
    THEN [k \in 1..Len(items) |->
            IF items[k].key = key THEN [key |-> key, value |-> value] ELSE items[k]]
    ELSE Append(items, [key |-> key, value |-> value])

\* Lines 141-237
RECURSIVE mets2codes_inner(_, _, _)
mets2codes_inner(articles_div, n, issue_code) ==
    IF n = 0 THEN <<>>
    ELSE LET before == mets2codes_inner(articles_div, n - 1, issue_code)
             article == articles_div[n]
         IN IF article.DMDID = <<>> THEN before
            ELSE DictSet(before, IssueArticleId(issue_code, article.DMDID),
                         ArticleCodes(article))

(***************************************************************************)
(* parse_pages                                                             *)
(***************************************************************************)
\* f"P{i+1}" for the 0-based index i; k is i + 1.
PageKey(k) == <<"P">> \o Decimal(k)

\* What ET.fromstring does with a page under XMLParser(recover=True): it
\* returns a root element, it raises XMLSyntaxError, or, for a document the
\* parser recovers no element from, it returns None.
ParseOutcomes == {"root", "error", "none"}

\* A page file: the outcome of ET.fromstring on it, the root it gives and
\* root.nsmap as its items in order (the prefix None is the empty prefix).
PageFile(parsed, root, nsmap) == [parsed |-> parsed, root |-> root, nsmap |-> nsmap]

Namespace(prefix, uri) == [prefix |-> prefix, uri |-> uri]

NonePrefix == <<>>

AltoKey == <<"a", "l", "t", "o">>

\* "http://www.loc.gov/standards/alto/ns-generic", by the part that matters.
FallbackUri == <<"a", "l", "t", "o", "/", "n", "s", "-", "g">>

\* str.lower() on the letters of the URIs
LowerChar(c) ==
    IF c = "A" THEN "a" ELSE IF c = "L" THEN "l"
    ELSE IF c = "T" THEN "t" ELSE IF c = "O" THEN "o" ELSE c

Lower(s) == [k \in 1..Len(s) |-> LowerChar(s[k])]

HasSubstring(s, pat) == \E i \in 1..Len(s) : HasPrefixAt(s, i, pat)

\* dict[key] = value on the items of a dict with sequences as keys
NsSet(items, key, value) ==
    IF \E k \in 1..Len(items) : items[k].prefix = key
    THEN [k \in 1..Len(items) |->
            IF items[k].prefix = key THEN Namespace(key, value) ELSE items[k]]
    ELSE Append(items, Namespace(key, value))

\* Lines 277-294: the scan for a URI with 'alto', from item k on.
RECURSIVE ScanForAlto(_, _, _)
ScanForAlto(original_nsmap, k, xpath_nsmap) ==
    IF k > Len(original_nsmap)
    THEN NsSet(xpath_nsmap, AltoKey, FallbackUri)
    ELSE IF HasSubstring(Lower(original_nsmap[k].uri), AltoKey)
    THEN NsSet(xpath_nsmap, AltoKey, original_nsmap[k].uri)
    ELSE ScanForAlto(original_nsmap, k + 1,
                     NsSet(xpath_nsmap, original_nsmap[k].prefix,
                           original_nsmap[k].uri))

\* Lines 268-294
AltoAlias(original_nsmap) ==
    IF \E k \in 1..Len(original_nsmap) : original_nsmap[k].prefix = NonePrefix
    THEN LET k == CHOOSE j \in 1..Len(original_nsmap) :
                      original_nsmap[j].prefix = NonePrefix
         IN <<Namespace(AltoKey, original_nsmap[k].uri)>>
    ELSE ScanForAlto(original_nsmap, 1, <<>>)

\* Lines 297-299, over the first n items.
RECURSIVE CopyPrefixed(_, _, _)
CopyPrefixed(original_nsmap, n, xpath_nsmap) ==
    IF n = 0 THEN xpath_nsmap
    ELSE LET before == CopyPrefixed(original_nsmap, n - 1, xpath_nsmap)
         IN IF original_nsmap[n].prefix # NonePrefix
            THEN NsSet(before, original_nsmap[n].prefix, original_nsmap[n].uri)
            ELSE before

\* Lines 262-299
XPathNsmap(original_nsmap) ==
    CopyPrefixed(original_nsmap, Len(original_nsmap), AltoAlias(original_nsmap))

\* Line 262 on a root that is None: the AttributeError is not the
\* XMLSyntaxError of line 302 and leaves parse_pages.
ParsePagesRaises(pages_tarinfo) ==
    \E k \in 1..Len(pages_tarinfo) : pages_tarinfo[k].parsed = "none"

\* Lines 252-306: (root, xpath_nsmap) of the pages that parse, under their own
\* index.
parse_pages(pages_tarinfo) ==
    [key \in {PageKey(k) : k \in {j \in 1..Len(pages_tarinfo) :
                                    pages_tarinfo[j].parsed = "root"}}
        |-> [root |-> pages_tarinfo[ParseInt(Tail(key))].root,
             xpath_nsmap |-> XPathNsmap(pages_tarinfo[ParseInt(Tail(key))].nsmap)]]

(***************************************************************************)
(* process_block                                                           *)
(***************************************************************************)
\* An element with the four box attributes (a missing one reads "0").
Box(hpos, vpos, width, height) ==
    [HPOS |-> hpos, VPOS |-> vpos, WIDTH |-> width, HEIGHT |-> height]

\* A TextBlock or ComposedBlock element with the String and TextLine
\* elements below it, in document order.
Block(kind, id, box, strings, lines) ==
    [kind |-> kind, ID |-> id, box |-> box, strings |-> strings, lines |-> lines]

\* re.match(r"P(\d+)_", block_id)
PageMatch(block_id) ==
    /\ Len(block_id) >= 1
    /\ block_id[1] = "P"
    /\ DigitRun(block_id, 2) >= 1
    /\ 2 + DigitRun(block_id, 2) <= Len(block_id)
    /\ block_id[2 + DigitRun(block_id, 2)] = "_"

\* f"P{match.group(1)}"
PageNo(block_id) == <<"P">> \o SubSeq(block_id, 2, 1 + DigitRun(block_id, 2))

\* Line 419
AltoBlockType(block_id) ==
    IF HasSubstring(block_id, <<"T", "B">>) THEN "TextBlock"
    ELSE IF HasSubstring(block_id, <<"C", "B">>) THEN "ComposedBlock"
    ELSE "None"

\* A query by the name as written in the file instead of local-name().
XmlBlocksByWrittenName(page_root, alto_block_type, block_id) ==
    LET Matches(el) ==
            el.prefix = <<>> /\ el.kind = alto_block_type /\ el.ID = block_id
    IN SelectSeq(page_root, Matches)

\* Line 424: the elements of the page with that local name and that ID.
XmlBlocks(page_root, alto_block_type, block_id) ==
    LET Matches(el) == el.kind = alto_block_type /\ el.ID = block_id
    IN SelectSeq(page_root, Matches)

\* int(float(value)); float() is taken on plain decimals.
IntOfFloat(value) ==
    LET Truncated(parsed) == [ok |-> parsed.ok, value |-> parsed.value \div 100]
    IN Apply(Truncated, ParseFloat(value))

\* float() gives inf for "inf", and int(inf) raises OverflowError.
IsInfinite(value) == value = <<"i", "n", "f">>

\* What int(float(value)) does: it returns an int or raises one of the two.
CoercionOutcome(value) ==
    IF IsInfinite(value) THEN "OverflowError"
    ELSE IF ParseFloat(value).ok THEN "int" ELSE "ValueError"

\* Lines 463-471 and 479-487: the try block takes HPOS, VPOS, WIDTH, HEIGHT
\* in this order and ends at the first that raises.
BoxOutcome(el) ==
    LET outcomes == <<CoercionOutcome(el.HPOS), CoercionOutcome(el.VPOS),
                      CoercionOutcome(el.WIDTH), CoercionOutcome(el.HEIGHT)>>
        raising == { k \in 1..4 : outcomes[k] # "int" }
    IN IF raising = {} THEN "int"
       ELSE outcomes[CHOOSE k \in raising : \A j \in raising : k <= j]

\* Lines 463-471 and 479-487: the four values, or four zeros on a ValueError.
BoxValues(el) ==
    LET Values(b) ==
            IF b.h.ok /\ b.v.ok /\ b.w.ok /\ b.t.ok
            THEN [hpos |-> b.h.value, vpos |-> b.v.value,
                  width |-> b.w.value, height |-> b.t.value]
            ELSE [hpos |-> 0, vpos |-> 0, width |-> 0, height |-> 0]
    IN Apply(Values, [h |-> IntOfFloat(el.HPOS), v |-> IntOfFloat(el.VPOS),
                      w |-> IntOfFloat(el.WIDTH), t |-> IntOfFloat(el.HEIGHT)])

\* The dictionary of lines 443-455 before anything is added; the keys of a
\* title block carry the prefix "title_", the fields are the same.
EmptyData ==
    [text_blocks |-> <<>>, word_confidences |-> <<>>,
     line_widths |-> <<>>, line_heights |-> <<>>, line_hpos |-> <<>>,
     line_vpos |-> <<>>, block_hpos |-> <<>>, block_vpos |-> <<>>,
     block_widths |-> <<>>, block_heights |-> <<>>, processed_block_ids |-> <<>>]

\* return None
NoBlock == [found |-> FALSE, data |-> EmptyData]

\* Lines 427-494
BlockData(block_id, xml_block) ==
    LET Result(got) ==
            [text_blocks |-> IF xml_block.strings # <<>> THEN <<got.text.text>>
                             ELSE <<>>,
             word_confidences |-> IF xml_block.strings # <<>>
                                  THEN got.text.confidences ELSE <<>>,
             line_widths |-> [k \in 1..Len(got.lines) |-> got.lines[k].width],
             line_heights |-> [k \in 1..Len(got.lines) |-> got.lines[k].height],
             line_hpos |-> [k \in 1..Len(got.lines) |-> got.lines[k].hpos],
             line_vpos |-> [k \in 1..Len(got.lines) |-> got.lines[k].vpos],
             block_hpos |-> <<got.box.hpos>>, block_vpos |-> <<got.box.vpos>>,
             block_widths |-> <<got.box.width>>,
             block_heights |-> <<got.box.height>>,
             processed_block_ids |-> <<block_id>>]
    IN Apply(Result,
             [text |-> process_text_block(xml_block.strings),
              box |-> BoxValues(xml_block.box),
              lines |-> [k \in 1..Len(xml_block.lines) |->
                           BoxValues(xml_block.lines[k])]])

\* Lines 409-492 leave process_block with the OverflowError that
\* `except ValueError` does not catch.
ProcessBlockRaises(block_id, pages) ==
    /\ PageMatch(block_id)
    /\ PageNo(block_id) \in DOMAIN pages
    /\ AltoBlockType(block_id) # "None"
    /\ \E xml_blocks \in {XmlBlocks(pages[PageNo(block_id)].root,
                                     AltoBlockType(block_id), block_id)} :
           /\ xml_blocks # <<>>
           /\ \/ BoxOutcome(xml_blocks[1].box) = "OverflowError"
              \/ \E k \in 1..Len(xml_blocks[1].lines) :
                     BoxOutcome(xml_blocks[1].lines[k]) = "OverflowError"

\* Lines 409-494
process_block(block_id, pages) ==
    IF ~PageMatch(block_id) THEN NoBlock
    ELSE IF PageNo(block_id) \notin DOMAIN pages THEN NoBlock
    ELSE IF AltoBlockType(block_id) = "None" THEN NoBlock
    ELSE LET xml_blocks == XmlBlocks(pages[PageNo(block_id)].root,
                                     AltoBlockType(block_id), block_id)
         IN IF xml_blocks = <<>> THEN NoBlock
            ELSE [found |-> TRUE, data |-> BlockData(block_id, xml_blocks[1])]

\* Lines 574-578 and 628-639: every list of block_data extends the list of
\* the same key.
Extend(data, block_data) ==
    [text_blocks |-> data.text_blocks \o block_data.text_blocks,
     word_confidences |-> data.word_confidences \o block_data.word_confidences,
     line_widths |-> data.line_widths \o block_data.line_widths,
     line_heights |-> data.line_heights \o block_data.line_heights,
     line_hpos |-> data.line_hpos \o block_data.line_hpos,
     line_vpos |-> data.line_vpos \o block_data.line_vpos,
     block_hpos |-> data.block_hpos \o block_data.block_hpos,
     block_vpos |-> data.block_vpos \o block_data.block_vpos,
     block_widths |-> data.block_widths \o block_data.block_widths,
     block_heights |-> data.block_heights \o block_data.block_heights,
     processed_block_ids |-> data.processed_block_ids \o block_data.processed_block_ids]

(***************************************************************************)
(* process_title_blocks, process_content_blocks, combine_article_data      *)
(***************************************************************************)
\* Lines 571-580
RECURSIVE TitleBlocks(_, _, _)
TitleBlocks(title_ids, n, pages) ==
    IF n = 0 THEN EmptyData
    ELSE LET Step(before) ==
                 LET Add(block) ==
                         IF block.found THEN Extend(before, block.data) ELSE before
                 IN Apply(Add, process_block(title_ids[n], pages))
         IN Apply(Step, TitleBlocks(title_ids, n - 1, pages))

\* The title blocks taken from the last id to the first.
ProcessTitleBlocksReversed(title_ids, pages) ==
    TitleBlocks([k \in 1..Len(title_ids) |-> title_ids[Len(title_ids) + 1 - k]],
                Len(title_ids), pages)

process_title_blocks(title_ids, pages) ==
    TitleBlocks(title_ids, Len(title_ids), pages)

\* Line 620: order_map.get(block_id, 999) if order_map else 999
Position(map, block_id) ==
    IF DOMAIN map # {} /\ block_id \in DOMAIN map THEN map[block_id] ELSE 999

\* The loop of lines 616-621 giving up the blocks it has when one id does not
\* resolve.
RECURSIVE BlocksDataAborting(_, _, _, _)
BlocksDataAborting(text_ids, n, pages, map) ==
    IF n = 0 THEN <<>>
    ELSE LET Step(before) ==
                 LET Add(block) ==
                         IF block.found
                         THEN Append(before, [block_id |-> text_ids[n],
                                              block_data |-> block.data,
                                              position |-> Position(map, text_ids[n])])
                         ELSE <<>>
                 IN Apply(Add, process_block(text_ids[n], pages))
         IN Apply(Step, BlocksDataAborting(text_ids, n - 1, pages, map))

\* Lines 616-621
RECURSIVE BlocksData(_, _, _, _)
BlocksData(text_ids, n, pages, map) ==
    IF n = 0 THEN <<>>
    ELSE LET Step(before) ==
                 LET Add(block) ==
                         IF block.found
                         THEN Append(before, [block_id |-> text_ids[n],
                                              block_data |-> block.data,
                                              position |-> Position(map, text_ids[n])])
                         ELSE before
                 IN Apply(Add, process_block(text_ids[n], pages))
         IN Apply(Step, BlocksData(text_ids, n - 1, pages, map))

RECURSIVE InsertByPosition(_, _)
InsertByPosition(sorted, x) ==
    IF sorted = <<>> THEN <<x>>
    ELSE IF sorted[1].position <= x.position
         THEN <<sorted[1]>> \o InsertByPosition(Tail(sorted), x)
         ELSE <<x>> \o sorted

RECURSIVE SortedByPosition(_, _)
SortedByPosition(blocks, n) ==
    IF n = 0 THEN <<>>
    ELSE InsertByPosition(SortedByPosition(blocks, n - 1), blocks[n])

\* The blocks left in the order of the id list.
KeepListOrder(blocks) == blocks

\* Line 624: blocks_data.sort(key=lambda x: x[2])
SortByPosition(blocks) == SortedByPosition(blocks, Len(blocks))

\* Lines 627-639
RECURSIVE ExtendAll(_, _)
ExtendAll(blocks, n) ==
    IF n = 0 THEN EmptyData
    ELSE LET Step(before) == Extend(before, blocks[n].block_data)
         IN Apply(Step, ExtendAll(blocks, n - 1))

\* Line 631: the position, once per text of the block.
RECURSIVE OrderPositions(_, _)
OrderPositions(blocks, n) ==
    IF n = 0 THEN <<>>
    ELSE OrderPositions(blocks, n - 1)
         \o [k \in 1..Len(blocks[n].block_data.text_blocks) |-> blocks[n].position]

\* Lines 599-641
process_content_blocks(text_ids, pages, map) ==
    LET Ordered(blocks) ==
            [data |-> ExtendAll(blocks, Len(blocks)),
             block_order_positions |-> OrderPositions(blocks, Len(blocks))]
    IN Apply(Ordered,
             Apply(SortByPosition, BlocksData(text_ids, Len(text_ids), pages, map)))

\* Lines 657-687
combine_article_data(mets_title, title_data, content_data, tags) ==
    [mets_title |-> mets_title,
     title_text |-> clean_text(Str(IF title_data.text_blocks # <<>>
                                   THEN JoinSpace(title_data.text_blocks)
                                   ELSE mets_title)),
     text |-> clean_text(Str(JoinSpace(content_data.text_blocks))),
     title_line_widths |-> title_data.line_widths,
     title_line_heights |-> title_data.line_heights,
     title_line_hpos |-> title_data.line_hpos,
     title_line_vpos |-> title_data.line_vpos,
     title_block_hpos |-> title_data.block_hpos,
     title_block_vpos |-> title_data.block_vpos,
     title_block_widths |-> title_data.block_widths,
     title_block_heights |-> title_data.block_heights,
     title_confidences |-> title_data.word_confidences,
     title_block_ids |-> title_data.processed_block_ids,
     line_widths |-> content_data.line_widths,
     line_heights |-> content_data.line_heights,
     line_hpos |-> content_data.line_hpos,
     line_vpos |-> content_data.line_vpos,
     block_hpos |-> content_data.block_hpos,
     block_vpos |-> content_data.block_vpos,
     block_widths |-> content_data.block_widths,
     block_heights |-> content_data.block_heights,
     word_confidences |-> content_data.word_confidences,
     block_ids |-> content_data.processed_block_ids,
     non_text_elements |-> tags]

(***************************************************************************)
(* extract_text_from_alto                                                  *)
(***************************************************************************)
\* Lines 532-537
ArticleRecord(data, pages) ==
    LET Titled(title_data) ==
            LET Combined(content_data) ==
                    combine_article_data(data.title, title_data, content_data.data,
                                         data.non_text_elements)
            IN Apply(Combined,
                     process_content_blocks(data.text_block_ids, pages, data.order_map))
    IN Apply(Titled, process_title_blocks(data.title_block_ids, pages))

Resolvable(ids, pages) ==
    \E k \in 1..Len(ids) : process_block(ids[k], pages).found

\* The loop body with the test of line 527 on the resolvable blocks.
ExtractArticleIfResolvable(acc, item, pages) ==
    IF /\ ~Resolvable(item.value.title_block_ids, pages)
       /\ ~Resolvable(item.value.text_block_ids, pages)
    THEN [texts_dict |-> acc.texts_dict,
          skipped_articles |-> acc.skipped_articles + 1]
    ELSE [texts_dict |-> DictSet(acc.texts_dict, item.key,
                                 ArticleRecord(item.value, pages)),
          skipped_articles |-> acc.skipped_articles]

\* The loop body without the count of line 529.
ExtractArticleNoCount(acc, item, pages) ==
    IF Len(item.value.title_block_ids) = 0 /\ Len(item.value.text_block_ids) = 0
    THEN acc
    ELSE [texts_dict |-> DictSet(acc.texts_dict, item.key,
                                 ArticleRecord(item.value, pages)),
          skipped_articles |-> acc.skipped_articles]

\* Lines 518-537: the loop body for one item of article_codes.
ExtractArticle(acc, item, pages) ==
    IF Len(item.value.title_block_ids) = 0 /\ Len(item.value.text_block_ids) = 0
    THEN [texts_dict |-> acc.texts_dict,
          skipped_articles |-> acc.skipped_articles + 1]
    ELSE [texts_dict |-> DictSet(acc.texts_dict, item.key,
                                 ArticleRecord(item.value, pages)),
          skipped_articles |-> acc.skipped_articles]

\* The tuple process_issue returns.
IssueResult(issue_code, success, articles, pages, skipped) ==
    [issue_code |-> issue_code, success |-> success, articles |-> articles,
     pages |-> pages, skipped |-> skipped]

\* return issue_code, False, 0, 0, 0
IssueFailure(issue_code) == IssueResult(issue_code, FALSE, 0, 0, 0)

NoResult == IssueResult(<<>>, FALSE, 0, 0, 0)

(***************************************************************************)
(* The values an issue is drawn from                                       *)
(***************************************************************************)
P1_TB3 == <<"P", "1", "_", "T", "B", "3">>
\* Ids that do not resolve: no element, no page prefix, no block kind, no page.
P1_TB7 == <<"P", "1", "_", "T", "B", "7">>
TB9 == <<"T", "B", "9">>
P1_X1 == <<"P", "1", "_", "X", "1">>
P9_TB1 == <<"P", "9", "_", "T", "B", "1">>

Word(content, wc) == Token(content, "", <<>>, wc)

Page1 ==
    << Block("TextBlock", P1_TB3, Box(<<"0">>, <<"0">>, <<"5", "0">>, <<"9">>),
             << Word(<<"H", "i">>, <<"0", ".", "9">>) >>,
             << Box(<<"0">>, <<"0">>, <<"5", "0">>, <<"9">>) >>),
       Block("TextBlock", P1_TB1,
             Box(<<"1", "0">>, <<"2", "0", ".", "5">>, <<"1", "0", "0">>, <<"3", "0">>),
             << Word(<<"o", "n", "e">>, <<"0", ".", "9">>), Word(<<"-">>, <<"x">>) >>,
             << Box(<<"1", "0">>, <<"2", "0">>, <<"9", "0">>, <<"1", "2", ".", "2", "5">>) >>),
       Block("ComposedBlock", P1_CB2, Box(<<"5">>, <<"x">>, <<"7">>, <<"8">>),
             << Word(<<"t", "w", "o">>, <<"0", ".", "5">>) >>, <<>>) >>

Page2 ==
    << Block("TextBlock", P2_TB1, Box(<<"1">>, <<"2">>, <<"3">>, <<"4">>),
             << Token(<<"c", "o", "m", "-">>, "HypPart1",
                      <<"c", "o", "m", "p", "u", "t", "e", "r">>, <<"0", ".", "8">>),
                Token(<<"p", "u", "t", "e", "r">>, "HypPart2", <<>>, <<"0", ".", "7">>) >>,
             << Box(<<"1">>, <<"2">>, <<"3">>, <<"2">>),
                Box(<<"1">>, <<"4">>, <<"y">>, <<"2">>) >>) >>

\* Namespace URIs: one with the marker in upper case, one without it.
AltoUri == <<"n", "s", "/", "A", "L", "T", "O">>
XlinkUri == <<"x", "l">>
Uris == {AltoUri, XlinkUri}

XlinkPrefix == <<"x">>
Prefixes == {NonePrefix, AltoKey, XlinkPrefix}

\* xmlns="...ALTO..." xmlns:x="..."
DefaultNsmap == <<Namespace(NonePrefix, AltoUri), Namespace(XlinkPrefix, XlinkUri)>>

\* root.nsmap: every prefix at most once.
Nsmaps ==
    UNION { { m \in [1..n -> {Namespace(p, u) : p \in Prefixes, u \in Uris}] :
                \A j, k \in 1..n : j # k => m[j].prefix # m[k].prefix } :
            n \in 0..MaxNamespaces }

\* The namespace a prefix stands for in the document (none when the elements
\* carry no prefix and no default namespace is declared).
UriOf(nsmap, prefix) ==
    IF \E k \in 1..Len(nsmap) : nsmap[k].prefix = prefix
    THEN nsmap[CHOOSE k \in 1..Len(nsmap) : nsmap[k].prefix = prefix].uri
    ELSE <<>>

\* The prefixes the elements of a document with that nsmap can be written with.
ElementPrefixes(nsmap) == {nsmap[k].prefix : k \in 1..Len(nsmap)} \cup {NonePrefix}

\* The element as lxml gives it: its prefix and namespace next to the local
\* name (kind).
Element(block, prefix, ns) ==
    [kind |-> block.kind, ID |-> block.ID, box |-> block.box,
     strings |-> block.strings, lines |-> block.lines,
     prefix |-> prefix, ns |-> ns]

\* The content written with the prefix, under the declarations of nsmap.
Qualified(content, nsmap, prefix) ==
    [k \in 1..Len(content) |-> Element(content[k], prefix, UriOf(nsmap, prefix))]

\* Attribute values of a box: a decimal, one float() rejects, and infinity.
BoxStrings == {<<"2", ".", "9">>, <<"x">>, <<"i", "n", "f">>}
Boxes == {Box(h, v, w, t) : h \in BoxStrings, v \in BoxStrings,
                            w \in BoxStrings, t \in BoxStrings}

LineBoxes == {Box(h, <<"7">>, w, <<"1", "2", ".", "2", "5">>) :
                h \in BoxStrings, w \in BoxStrings}

\* A page of one block with one line.
BoxPage(box, line) ==
    << Block("TextBlock", P1_TB1, box,
             << Word(<<"o", "n", "e">>, <<"0", ".", "8">>) >>, <<line>>) >>

\* The page files of one page: the content of Page1 under every declaration,
\* and every box under the declaration of a default namespace.
PageDocs ==
    UNION { { PageFile(parsed, Qualified(Page1, nsmap, prefix), nsmap) :
                prefix \in ElementPrefixes(nsmap) } :
            nsmap \in Nsmaps, parsed \in {"root"} }
    \cup { PageFile("root", Qualified(BoxPage(box, line), DefaultNsmap, NonePrefix),
                    DefaultNsmap) : box \in Boxes, line \in LineBoxes }

\* The ids process_block is called with on that page.
PageBlockIds == {P1_TB1, P1_CB2, P1_TB3, P1_TB7, P1_X1, TB9, P9_TB1}

\* A third page: a block without String elements.
P3_TB1 == <<"P", "3", "_", "T", "B", "1">>

Page3 == << Block("TextBlock", P3_TB1, Box(<<"1">>, <<"1">>, <<"1">>, <<"1">>),
                  <<>>, <<>>) >>

\* The pages the articles below refer to.
ArticlePages ==
    parse_pages(<<PageFile("root", Page1, DefaultNsmap),
                  PageFile("root", Page2, DefaultNsmap),
                  PageFile("root", Page3, DefaultNsmap)>>)

\* LABEL values: the default and one with whitespace to normalize.
ArticleTitles == { Untitled, <<"N", " ", " ", "s">> }

\* Title ids: two with words, one without String elements, one without element.
ArticleTitleIds == {P1_TB3, P2_TB1, P3_TB1, P1_TB7}

\* Content ids: resolvable ones and one of each kind that is not.
ArticleTextIds == {P1_TB1, P2_TB1, P1_TB7, TB9, P1_X1, P9_TB1}

IdLists(ids) == UNION { [1..n -> ids] : n \in 0..MaxIds }

ArticleOrderMaps == { EmptyMap, (P2_TB1 :> 0) @@ (P1_TB1 :> 1) }

\* The root of the k-th page file of the issue.
PageRoot(k) == IF k = 1 THEN Page1 ELSE IF k = 2 THEN Page2 ELSE <<>>

PageFileLists ==
    UNION { { [k \in 1..n |-> PageFile(parsed[k], PageRoot(k), DefaultNsmap)] :
                parsed \in [1..n -> ParseOutcomes] } : n \in 0..MaxPages }

BodyWithText(sub_divs) == << ChildDiv("BODY", TRUE, sub_divs) >>

\* The article divs an issue is made of, for the DMDID of their place.
ArticleDivs(dmd_id) ==
    { \* no area at all
      ArticleDiv(dmd_id, News, <<>>, <<>>, <<>>),
      \* two TEXT divs of sequence 2 and 1
      ArticleDiv(dmd_id, News, <<P1_TB3>>,
                 << Div("BODY", <<"9", "9", "9">>, <<>>),
                    Div("TEXT", <<"2">>, <<P1_TB1>>), Div("TEXT", <<"1">>, <<P2_TB1>>) >>,
                 BodyWithText(<< SubDiv("TEXT", <<P1_TB1>>), SubDiv("TEXT", <<P2_TB1>>) >>)),
      \* ids that do not resolve
      ArticleDiv(dmd_id, Untitled, <<P1_TB7>>,
                 << Div("TEXT", <<"1">>, <<TB9, P1_X1, P9_TB1>>) >>,
                 BodyWithText(<< SubDiv("TEXT", <<TB9, P1_X1, P9_TB1>>) >>)),
      \* a title only
      ArticleDiv(dmd_id, News, <<P1_TB3>>, <<>>, <<>>),
      \* a repeated id in the sequence pass and a table met by the walk
      ArticleDiv(dmd_id, News, <<>>,
                 << Div("TEXT", <<"1">>, <<P1_TB1, P1_TB1, P1_CB2>>),
                    Div("TABLE", <<"2">>, <<>>) >>,
                 BodyWithText(<< SubDiv("TEXT", <<P1_TB1, P1_TB1, P1_CB2>>),
                                 SubDiv("TABLE", <<P2_TB1>>) >>)),
      ArticleDiv(dmd_id, News, <<>>,
                 << Div("TEXT", <<"1">>, <<P2_TB1, P2_TB1, P2_TB1, P1_CB2>>),
                    Div("TABLE", <<"2">>, <<>>) >>,
                 BodyWithText(<< SubDiv("TEXT", <<P2_TB1, P2_TB1, P2_TB1, P1_CB2>>),
                                 SubDiv("TABLE", <<P1_TB1>>) >>)) }

\* "MODSMD_ARTICLE" is cut to 7 characters here: the id of the k-th article.
DmdId(k) == <<"M", "O", "D", "S", "M", "D", "_", "A">> \o Decimal(k)

AllArticleDivs == UNION { ArticleDivs(DmdId(k)) : k \in 1..MaxArticles }

ArticleDivLists ==
    UNION { { divs \in [1..n -> AllArticleDivs] :
                \A k \in 1..n : divs[k].DMDID = DmdId(k) } : n \in 0..MaxArticles }

(***************************************************************************)
(* The XPath queries of mets2codes_inner over an article div as a tree     *)
(***************************************************************************)
\* A div below the article div: its TYPE and ORDER, its area children, the
\* areas below its fptr children, and the divs nested in it.
TreeDiv(div_type, order_str, direct, below_fptr, inner) ==
    [TYPE |-> div_type, ORDER |-> order_str, direct |-> direct,
     fptr |-> below_fptr, inner |-> inner]

\* The article div: its attributes and its child divs.
TreeArticle(dmd_id, label, children) ==
    [DMDID |-> dmd_id, LABEL |-> label, children |-> children]

\* xpath(".//mets:div") below a list of sibling divs, in document order.
RECURSIVE DivsWithin(_)
DivsWithin(divs) ==
    IF divs = <<>> THEN <<>>
    ELSE <<divs[1]>> \o DivsWithin(divs[1].inner) \o DivsWithin(Tail(divs))

\* The areas of each div of a list, its own ones only.
RECURSIVE OwnAreas(_)
OwnAreas(divs) ==
    IF divs = <<>> THEN <<>>
    ELSE divs[1].direct \o divs[1].fptr \o OwnAreas(Tail(divs))

\* div.xpath(".//mets:area"): the areas of the div and of every div in it.
AreasBelow(div) == OwnAreas(<<div>> \o DivsWithin(div.inner))

\* Lines 157-159: the areas below the HEADING divs.
RECURSIVE TitleAreasOf(_)
TitleAreasOf(divs) ==
    IF divs = <<>> THEN <<>>
    ELSE (IF divs[1].TYPE = "HEADING" THEN AreasBelow(divs[1]) ELSE <<>>)
         \o TitleAreasOf(Tail(divs))

\* Lines 168 and 185: the divs that are not HEADING, with their area children.
RECURSIVE ContentDivsOf(_)
ContentDivsOf(divs) ==
    IF divs = <<>> THEN <<>>
    ELSE (IF divs[1].TYPE # "HEADING"
          THEN <<Div(divs[1].TYPE, divs[1].ORDER, divs[1].direct)>> ELSE <<>>)
         \o ContentDivsOf(Tail(divs))

\* Lines 217 and 225: the divs below a child div, each with the areas below it.
SubDivsOf(child) ==
    [k \in 1..Len(DivsWithin(child.inner)) |->
        SubDiv(DivsWithin(child.inner)[k].TYPE, AreasBelow(DivsWithin(child.inner)[k]))]

\* Lines 205-217: the child divs; line 210 looks for a TEXT div below a BODY.
ChildDivsOf(children) ==
    [k \in 1..Len(children) |->
        ChildDiv(children[k].TYPE,
                 \E j \in 1..Len(DivsWithin(children[k].inner)) :
                     DivsWithin(children[k].inner)[j].TYPE = "TEXT",
                 SubDivsOf(children[k]))]

\* What the queries of lines 147-225 return on the article div.
ArticleDivOf(article) ==
    ArticleDiv(article.DMDID, article.LABEL,
               TitleAreasOf(DivsWithin(article.children)),
               ContentDivsOf(DivsWithin(article.children)),
               ChildDivsOf(article.children))

\* The documents: a BODY with up to MaxSubDivs divs, each TEXT, TABLE or
\* CAPTION with an area of its own or none, and a CAPTION or TABLE nested in
\* it or none.
NestedDivs ==
    { <<>> } \cup
    { << TreeDiv(t, <<"1">>, <<>>, <<b>>, <<>>) >> :
        t \in {"CAPTION", "TABLE"}, b \in {P1_TB1, P2_TB1} }

DocSubDivs ==
    { TreeDiv(t, <<"1">>, a.direct, a.fptr, inner) :
        t \in {"TEXT", "TABLE", "CAPTION"},
        a \in { [direct |-> <<>>, fptr |-> <<>>],
                [direct |-> <<P1_TB1>>, fptr |-> <<>>],
                [direct |-> <<>>, fptr |-> <<P1_CB2>>] },
        inner \in NestedDivs }

DocArticles ==
    { TreeArticle(DmdId(1), News,
                  << TreeDiv("BODY", <<"9", "9", "9">>, <<>>, <<>>, subs) >>) :
        subs \in UNION { [1..n -> DocSubDivs] : n \in 0..MaxSubDivs } }

(***************************************************************************)
(* Idle values: what a specification leaves alone                          *)
(***************************************************************************)
CleanIdle ==
    /\ ct_pc = "idle"
    /\ ct_in = NoneValue
    /\ ct_out = <<>>
    /\ ct_out2 = <<>>

TextIdle ==
    /\ tb_pc = "idle"
    /\ block_strings = <<>>
    /\ tb_i = 0
    /\ skip_next = FALSE
    /\ words = <<>>
    /\ word_confidences = <<>>
    /\ total_string = <<>>

MetsIdle ==
    /\ mets_pc = "idle"
    /\ article_key = <<>>
    /\ article_title = <<>>
    /\ title_block_ids = <<>>
    /\ traversal = <<>>
    /\ all_content_divs = <<>>
    /\ text_block_ids = <<>>
    /\ order_map = EmptyMap
    /\ non_text_elements = <<>>
    /\ child_open = FALSE
    /\ art_dict = EmptyMap

IssueIdle ==
    /\ is_pc = "idle"
    /\ page_files = <<>>
    /\ article_codes = <<>>
    /\ page_info = EmptyMap
    /\ art_i = 0
    /\ texts_dict = <<>>
    /\ skipped_articles = 0
    /\ parquet = [written |-> FALSE, rows |-> <<>>]
    /\ result = NoResult

DocIdle ==
    /\ doc_pc = "idle"
    /\ mets_doc = <<>>
    /\ doc_codes = <<>>

BatchIdle ==
    /\ bt_pc = "idle"
    /\ bt_issues = <<>>
    /\ bt_max_workers = [none |-> TRUE, n |-> 0]
    /\ bt_cpus = 0
    /\ bt_next = 0
    /\ bt_running = <<>>
    /\ bt_done = EmptyMap
    /\ bt_results = <<>>
    /\ bt_returned = [successful |-> <<>>, failed |-> <<>>, stats |-> EmptyMap]

ArticleIdle ==
    /\ ar_pc = "idle"
    /\ ar_data = ArticleStructure(<<>>, <<>>, <<>>, <<>>, EmptyMap)
    /\ ar_title_data = EmptyData
    /\ ar_content_data = [data |-> EmptyData, block_order_positions |-> <<>>]
    /\ ar_record = <<>>

PageIdle ==
    /\ pg_pc = "idle"
    /\ pg_file = PageFile("error", <<>>, <<>>)
    /\ pg_info = EmptyMap
    /\ pg_block_id = <<>>
    /\ pg_block = NoBlock

(***************************************************************************)
(* The normalizer applied to a text, and again to its own result           *)
(***************************************************************************)
CleanInit ==
    /\ ct_pc = "input"
    /\ ct_in = Str(<<>>)
    /\ ct_out = <<>>
    /\ ct_out2 = <<>>
    /\ TextIdle
    /\ MetsIdle
    /\ IssueIdle
    /\ DocIdle
    /\ PageIdle
    /\ ArticleIdle
    /\ BatchIdle

\* The characters of the text typed one by one: all of it, or what follows
\* the marker text it opens with.
TypedLen(chars) ==
    IF HasPrefixAt(chars, 1, HyphenMarkerHead)
    THEN Len(chars) - Len(HyphenMarkerHead)
    ELSE Len(chars)

\* The caller's text opens with the characters clean_text uses as a marker.
CleanMarkerText ==
    /\ ct_pc = "input"
    /\ ct_in = Str(<<>>)
    /\ ct_in' = Str(HyphenMarkerHead)
    /\ UNCHANGED <<ct_pc, ct_out, ct_out2>>
    /\ UNCHANGED not_ct_vars

\* The caller's text grows by one character.
CleanType(c) ==
    /\ ct_pc = "input"
    /\ ct_in.kind = "str"
    /\ TypedLen(ct_in.chars) < MaxTextLen
    /\ ct_in' = Str(Append(ct_in.chars, c))
    /\ UNCHANGED <<ct_pc, ct_out, ct_out2>>
    /\ UNCHANGED not_ct_vars

\* The caller has no text at all.
CleanNone ==
    /\ ct_pc = "input"
    /\ ct_in = Str(<<>>)
    /\ ct_in' = NoneValue
    /\ UNCHANGED <<ct_pc, ct_out, ct_out2>>
    /\ UNCHANGED not_ct_vars

CleanApply ==
    /\ ct_pc = "input"
    /\ ct_out' = clean_text(ct_in)
    /\ ct_pc' = "cleaned"
    /\ UNCHANGED <<ct_in, ct_out2>>
    /\ UNCHANGED not_ct_vars

CleanReapply ==
    /\ ct_pc = "cleaned"
    /\ ct_out2' = clean_text(Str(ct_out))
    /\ ct_pc' = "recleaned"
    /\ UNCHANGED <<ct_in, ct_out>>
    /\ UNCHANGED not_ct_vars

CleanNext ==
    \/ \E c \in CleanChars : CleanType(c)
    \/ CleanMarkerText
    \/ CleanNone
    \/ CleanApply
    \/ CleanReapply

SpecClean == CleanInit /\ [][CleanNext]_vars

(***************************************************************************)
(* process_text_block, one pass of its loop at a time                      *)
(***************************************************************************)
TextInit ==
    /\ tb_pc = "input"
    /\ block_strings = <<>>
    /\ tb_i = 0
    /\ skip_next = FALSE
    /\ words = <<>>
    /\ word_confidences = <<>>
    /\ total_string = <<>>
    /\ CleanIdle
    /\ MetsIdle
    /\ IssueIdle
    /\ DocIdle
    /\ PageIdle
    /\ ArticleIdle
    /\ BatchIdle

\* The block holds one more String element.
TextToken(t) ==
    /\ tb_pc = "input"
    /\ Len(block_strings) < MaxTokens
    /\ block_strings' = Append(block_strings, t)
    /\ UNCHANGED <<tb_pc, tb_i, skip_next, words, word_confidences, total_string>>
    /\ UNCHANGED not_tb_vars

\* Lines 325-330: an empty block returns at once, another enters the loop.
TextCall ==
    /\ tb_pc = "input"
    /\ tb_pc' = IF block_strings = <<>> THEN "done" ELSE "loop"
    /\ UNCHANGED <<block_strings, tb_i, skip_next, words, word_confidences,
                   total_string>>
    /\ UNCHANGED not_tb_vars

\* Lines 331-391: one pass of the while loop.
TextLoopStep ==
    /\ tb_pc = "loop"
    /\ tb_i < Len(block_strings)
    /\ \E st \in {TextStep(block_strings,
                          TextLoop(tb_i, skip_next, words, word_confidences))} :
          /\ tb_i' = st.i
          /\ skip_next' = st.skip_next
          /\ words' = st.words
          /\ word_confidences' = st.word_confidences
    /\ UNCHANGED <<tb_pc, block_strings, total_string>>
    /\ UNCHANGED not_tb_vars

\* Lines 393-394: the loop is over.
TextReturn ==
    /\ tb_pc = "loop"
    /\ ~(tb_i < Len(block_strings))
    /\ total_string' = JoinSpace(words)
    /\ tb_pc' = "done"
    /\ UNCHANGED <<block_strings, tb_i, skip_next, words, word_confidences>>
    /\ UNCHANGED not_tb_vars

TextNext ==
    \/ \E t \in Tokens : TextToken(t)
    \/ TextCall
    \/ TextLoopStep
    \/ TextReturn

SpecText == TextInit /\ [][TextNext]_vars

\* The interpreter runs the call on: the loop takes its next pass, and the
\* function returns when the loop is over.
FairText == WF_vars(TextLoopStep) /\ WF_vars(TextReturn)

SpecTextFair == SpecText /\ FairText

(***************************************************************************)
(* mets2codes_inner over one article div, one element at a time            *)
(***************************************************************************)
MetsInit ==
    /\ mets_pc = "article"
    /\ article_key = <<>>
    /\ article_title = <<>>
    /\ title_block_ids = <<>>
    /\ traversal = <<>>
    /\ all_content_divs = <<>>
    /\ text_block_ids = <<>>
    /\ order_map = EmptyMap
    /\ non_text_elements = <<>>
    /\ child_open = FALSE
    /\ art_dict = EmptyMap
    /\ CleanIdle
    /\ TextIdle
    /\ IssueIdle
    /\ DocIdle
    /\ PageIdle
    /\ ArticleIdle
    /\ BatchIdle

\* The ids a walk of sub-divisions has added behind those of the sequence pass.
WalkedIds ==
    Len(text_block_ids)
    - Cardinality({all_content_divs[k].block_id : k \in 1..Len(all_content_divs)})

\* The size of the article met so far, and what the bound leaves.
ArticleSize ==
    Len(title_block_ids) + Len(all_content_divs) + Len(non_text_elements)
    + (IF mets_pc = "nontext" THEN WalkedIds ELSE 0)

ArticleRoom == MaxArticleSize - ArticleSize

\* Lines 147-165: the article div's attributes.
MetsArticle(dmd_id, label) ==
    /\ mets_pc = "article"
    /\ IF dmd_id = <<>>
       THEN /\ mets_pc' = "skipped"
            /\ UNCHANGED <<article_key, article_title>>
       ELSE /\ mets_pc' = "title"
            /\ article_key' = IssueArticleId(IssueCode, dmd_id)
            /\ article_title' = label
    /\ UNCHANGED <<title_block_ids, traversal, all_content_divs, text_block_ids,
                   order_map, non_text_elements, child_open, art_dict>>
    /\ UNCHANGED not_mets_vars

\* Lines 158-162: one area under a HEADING div.
MetsTitleArea(block_id) ==
    /\ mets_pc = "title"
    /\ ArticleRoom >= 1
    /\ title_block_ids' = TitleArea(title_block_ids, block_id)
    /\ UNCHANGED <<mets_pc, article_key, article_title, traversal, all_content_divs,
                   text_block_ids, order_map, non_text_elements, child_open, art_dict>>
    /\ UNCHANGED not_mets_vars

\* Lines 168-188: one div that is not a HEADING, with its direct areas.
MetsContentDiv(div_type, order_str, areas) ==
    /\ mets_pc \in {"title", "content"}
    /\ Len(areas) <= ArticleRoom
    /\ mets_pc' = "content"
    /\ all_content_divs' = ContentDiv(all_content_divs, div_type, order_str, areas)
    /\ traversal' = all_content_divs'
    /\ UNCHANGED <<article_key, article_title, title_block_ids, text_block_ids,
                   order_map, non_text_elements, child_open, art_dict>>
    /\ UNCHANGED not_mets_vars

\* Lines 190-204: the sort and the sequence pass.
MetsSequence ==
    /\ mets_pc \in {"title", "content"}
    /\ all_content_divs' = SortByOrder(all_content_divs)
    /\ LET acc == SequencePass(all_content_divs', Len(all_content_divs')) IN
         /\ text_block_ids' = acc.ids
         /\ order_map' = acc.map
    /\ mets_pc' = "nontext"
    /\ UNCHANGED <<article_key, article_title, title_block_ids, traversal,
                   non_text_elements, child_open, art_dict>>
    /\ UNCHANGED not_mets_vars

\* Lines 205-214: one direct child div of the article.
MetsChildDiv(div_type, body_has_text) ==
    /\ mets_pc = "nontext"
    /\ Len(ChildTag(div_type, body_has_text)) <= ArticleRoom
    /\ non_text_elements' = non_text_elements \o ChildTag(div_type, body_has_text)
    /\ child_open' = (div_type # "" /\ div_type # "HEADING")
    /\ UNCHANGED <<mets_pc, article_key, article_title, title_block_ids, traversal,
                   all_content_divs, text_block_ids, order_map, art_dict>>
    /\ UNCHANGED not_mets_vars

\* Lines 217-229: one div below the current child div, with the areas below it.
MetsSubDiv(sub_type, areas) ==
    /\ mets_pc = "nontext"
    /\ child_open
    /\ 1 + Len(areas) <= ArticleRoom
    /\ IF SubTypeRecorded(sub_type)
       THEN /\ non_text_elements' = Append(non_text_elements, sub_type)
            /\ IF sub_type \notin ExcludeContentTypes
               THEN LET acc == WalkAreas([ids |-> text_block_ids, map |-> order_map],
                                         areas)
                    IN /\ text_block_ids' = acc.ids
                       /\ order_map' = acc.map
               ELSE UNCHANGED <<text_block_ids, order_map>>
       ELSE UNCHANGED <<non_text_elements, text_block_ids, order_map>>
    /\ UNCHANGED <<mets_pc, article_key, article_title, title_block_ids, traversal,
                   all_content_divs, child_open, art_dict>>
    /\ UNCHANGED not_mets_vars

\* Line 232
MetsStore ==
    /\ mets_pc = "nontext"
    /\ art_dict' = (article_key :>
                      ArticleStructure(article_title, title_block_ids, text_block_ids,
                                       non_text_elements, order_map)) @@ art_dict
    /\ mets_pc' = "stored"
    /\ UNCHANGED <<article_key, article_title, title_block_ids, traversal,
                   all_content_divs, text_block_ids, order_map, non_text_elements,
                   child_open>>
    /\ UNCHANGED not_mets_vars

MetsNext ==
    \/ \E d \in DmdIds, l \in Labels : MetsArticle(d, l)
    \/ \E b \in PassBegins : MetsTitleArea(b)
    \/ \E t \in ContentDivTypes, o \in OrderStrings, a \in AreaLists(PassBegins, MaxDivAreas) :
          MetsContentDiv(t, o, a)
    \/ MetsSequence
    \/ \E t \in ChildDivTypes, h \in BOOLEAN : MetsChildDiv(t, h)
    \/ \E t \in SubDivTypes, a \in AreaLists(AreaBegins, MaxDivAreas) : MetsSubDiv(t, a)
    \/ MetsStore

SpecMets == MetsInit /\ [][MetsNext]_vars

(***************************************************************************)
(* process_issue on one issue, extract_text_from_alto one article at a time*)
(***************************************************************************)
IssueInit ==
    /\ is_pc = "start"
    /\ page_files = <<>>
    /\ article_codes = <<>>
    /\ page_info = EmptyMap
    /\ art_i = 0
    /\ texts_dict = <<>>
    /\ skipped_articles = 0
    /\ parquet = [written |-> FALSE, rows |-> <<>>]
    /\ result = NoResult
    /\ CleanIdle
    /\ TextIdle
    /\ MetsIdle
    /\ DocIdle
    /\ PageIdle
    /\ ArticleIdle
    /\ BatchIdle

\* Lines 735-748: the archive is looked up in the input paths.
IssueLocate(found) ==
    /\ is_pc = "start"
    /\ IF found
       THEN is_pc' = "members" /\ UNCHANGED result
       ELSE is_pc' = "returned" /\ result' = IssueFailure(IssueCode)
    /\ UNCHANGED <<page_files, article_codes, page_info, art_i, texts_dict,
                   skipped_articles, parquet>>
    /\ UNCHANGED not_issue_vars

\* Lines 752-758
IssueMembers(mets_present, files) ==
    /\ is_pc = "members"
    /\ page_files' = files
    /\ IF ~mets_present \/ Len(files) = 0
       THEN is_pc' = "returned" /\ result' = IssueFailure(IssueCode)
       ELSE is_pc' = "mets" /\ UNCHANGED result
    /\ UNCHANGED <<article_codes, page_info, art_i, texts_dict, skipped_articles,
                   parquet>>
    /\ UNCHANGED not_issue_vars

\* Lines 760-768
IssueMets(articles_div) ==
    /\ is_pc = "mets"
    /\ article_codes' = mets2codes_inner(articles_div, Len(articles_div), IssueCode)
    /\ IF Len(article_codes') = 0
       THEN is_pc' = "returned" /\ result' = IssueFailure(IssueCode)
       ELSE is_pc' = "pages" /\ UNCHANGED result
    /\ UNCHANGED <<page_files, page_info, art_i, texts_dict, skipped_articles,
                   parquet>>
    /\ UNCHANGED not_issue_vars

\* Lines 774-778 and 515-516
IssueParsePages ==
    /\ is_pc = "pages"
    /\ IF ParsePagesRaises(page_files)
       THEN /\ UNCHANGED page_info
            /\ is_pc' = "returned"
            /\ result' = IssueFailure(IssueCode)
       ELSE /\ page_info' = parse_pages(page_files)
            /\ IF DOMAIN page_info' = {}
               THEN is_pc' = "returned" /\ result' = IssueFailure(IssueCode)
               ELSE is_pc' = "extract" /\ UNCHANGED result
    /\ UNCHANGED <<page_files, article_codes, art_i, texts_dict, skipped_articles,
                   parquet>>
    /\ UNCHANGED not_issue_vars

\* Lines 518-537: one turn of the loop of extract_text_from_alto.
IssueExtractArticle ==
    /\ is_pc = "extract"
    /\ art_i < Len(article_codes)
    /\ \E acc \in {ExtractArticle([texts_dict |-> texts_dict,
                                    skipped_articles |-> skipped_articles],
                                   article_codes[art_i + 1], page_info)} :
          /\ texts_dict' = acc.texts_dict
          /\ skipped_articles' = acc.skipped_articles
    /\ art_i' = art_i + 1
    /\ UNCHANGED <<is_pc, page_files, article_codes, page_info, parquet, result>>
    /\ UNCHANGED not_issue_vars

\* Lines 542 and 780-823: the table is written, or the writing raises and
\* the handler of line 834 returns.
IssueWrite(raises) ==
    /\ is_pc = "extract"
    /\ art_i = Len(article_codes)
    /\ IF raises
       THEN /\ is_pc' = "returned"
            /\ result' = IssueFailure(IssueCode)
            /\ UNCHANGED parquet
       ELSE /\ is_pc' = "written"
            /\ parquet' = [written |-> TRUE, rows |-> texts_dict]
            /\ UNCHANGED result
    /\ UNCHANGED <<page_files, article_codes, page_info, art_i, texts_dict,
                   skipped_articles>>
    /\ UNCHANGED not_issue_vars

\* The return with a failure when no article was extracted.
IssueReturnFailsWhenEmpty ==
    /\ is_pc = "written"
    /\ is_pc' = "returned"
    /\ result' = IF Len(parquet.rows) = 0
                 THEN IssueFailure(IssueCode)
                 ELSE IssueResult(IssueCode, TRUE, Len(parquet.rows), Len(page_files),
                                  Len(article_codes) - Len(texts_dict))
    /\ UNCHANGED <<page_files, article_codes, page_info, art_i, texts_dict,
                   skipped_articles, parquet>>
    /\ UNCHANGED not_issue_vars

\* Lines 781 and 826-832: len(df) rows, len(page_files) pages.
IssueReturn ==
    /\ is_pc = "written"
    /\ is_pc' = "returned"
    /\ result' = IssueResult(IssueCode, TRUE, Len(parquet.rows), Len(page_files),
                             Len(article_codes) - Len(texts_dict))
    /\ UNCHANGED <<page_files, article_codes, page_info, art_i, texts_dict,
                   skipped_articles, parquet>>
    /\ UNCHANGED not_issue_vars

IssueNext ==
    \/ \E found \in BOOLEAN : IssueLocate(found)
    \/ \E mets_present \in BOOLEAN, files \in PageFileLists :
          IssueMembers(mets_present, files)
    \/ \E articles_div \in ArticleDivLists : IssueMets(articles_div)
    \/ IssueParsePages
    \/ IssueExtractArticle
    \/ \E raises \in BOOLEAN : IssueWrite(raises)
    \/ IssueReturn

SpecIssue == IssueInit /\ [][IssueNext]_vars

(***************************************************************************)
(* mets2codes_inner on a structural document with one article div          *)
(***************************************************************************)
DocInit ==
    /\ doc_pc = "document"
    /\ mets_doc \in DocArticles
    /\ doc_codes = <<>>
    /\ CleanIdle
    /\ TextIdle
    /\ MetsIdle
    /\ IssueIdle
    /\ PageIdle
    /\ ArticleIdle
    /\ BatchIdle

\* Lines 138-237
DocParse ==
    /\ doc_pc = "document"
    /\ doc_pc' = "returned"
    /\ doc_codes' = mets2codes_inner(<<ArticleDivOf(mets_doc)>>, 1, IssueCode)
    /\ UNCHANGED mets_doc
    /\ UNCHANGED not_doc_vars

DocNext == DocParse

SpecDoc == DocInit /\ [][DocNext]_vars

(***************************************************************************)
(* The loop body of extract_text_from_alto for one article                 *)
(***************************************************************************)
ArticleInit ==
    /\ CleanIdle
    /\ TextIdle
    /\ MetsIdle
    /\ IssueIdle
    /\ DocIdle
    /\ PageIdle
    /\ BatchIdle
    /\ ar_pc = "data"
    /\ \E title \in ArticleTitles, title_ids \in IdLists(ArticleTitleIds),
          text_ids \in IdLists(ArticleTextIds), map \in ArticleOrderMaps :
          ar_data = ArticleStructure(title, title_ids, text_ids, <<>>, map)
    /\ ar_title_data = EmptyData
    /\ ar_content_data = [data |-> EmptyData, block_order_positions |-> <<>>]
    /\ ar_record = <<>>

\* Line 532
ArticleTitleBlocks ==
    /\ ar_pc = "data"
    /\ Len(ar_data.title_block_ids) # 0 \/ Len(ar_data.text_block_ids) # 0
    /\ ar_title_data' = process_title_blocks(ar_data.title_block_ids, ArticlePages)
    /\ ar_pc' = "title"
    /\ UNCHANGED <<ar_data, ar_content_data, ar_record, not_ar_vars>>

\* Line 533
ArticleContentBlocks ==
    /\ ar_pc = "title"
    /\ ar_content_data' = process_content_blocks(ar_data.text_block_ids, ArticlePages,
                                                 ar_data.order_map)
    /\ ar_pc' = "content"
    /\ UNCHANGED <<ar_data, ar_title_data, ar_record, not_ar_vars>>

\* Lines 534-537
ArticleCombine ==
    /\ ar_pc = "content"
    /\ ar_record' = <<combine_article_data(ar_data.title, ar_title_data,
                                          ar_content_data.data,
                                          ar_data.non_text_elements)>>
    /\ ar_pc' = "record"
    /\ UNCHANGED <<ar_data, ar_title_data, ar_content_data, not_ar_vars>>

ArticleNext ==
    \/ ArticleTitleBlocks
    \/ ArticleContentBlocks
    \/ ArticleCombine

SpecArticle == ArticleInit /\ [][ArticleNext]_vars

(***************************************************************************)
(* batch_process_issues                                                    *)
(***************************************************************************)
\* What happens inside the try of process_issue for an issue: it returns the
\* success tuple of line 832, it returns a failure tuple (lines 748-778), or
\* an exception is raised and caught at line 834 or 838.
IssueBehaviours == {"success", "failure", "raises"}

IssueCodes == { <<"A">>, <<"B">>, <<"C">> }

\* list(issues.items()): the keys of a dict, each once.
IssueItemLists ==
    UNION { { items \in [1..n -> [code : IssueCodes, behaviour : IssueBehaviours]] :
                \A j, k \in 1..n : j # k => items[j].code # items[k].code } :
            n \in 0..MaxIssues }

NoneWorkers == [none |-> TRUE, n |-> 0]

MaxWorkersArgs == {NoneWorkers} \cup { [none |-> FALSE, n |-> n] : n \in 1..MaxWorkers }

Min(a, b) == IF a <= b THEN a ELSE b

\* Lines 859-860
WorkerCount(max_workers, cpus, issues) ==
    IF max_workers.none THEN Min(cpus - 1, Len(issues)) ELSE max_workers.n

\* Lines 731-841: the tuple process_issue returns for the item.
ProcessIssueResult(item) ==
    IF item.behaviour = "success"
    THEN IssueResult(item.code, TRUE, 3, 2, 1)
    ELSE IssueFailure(item.code)

\* Lines 879-884
Successful(results) ==
    LET Ok(r) == r.success
        ok == SelectSeq(results, Ok)
    IN [k \in 1..Len(ok) |-> ok[k].issue_code]

Failed(results) ==
    LET NotOk(r) == ~r.success
        bad == SelectSeq(results, NotOk)
    IN [k \in 1..Len(bad) |-> bad[k].issue_code]

Stats(results) ==
    [code \in { results[k].issue_code : k \in { j \in 1..Len(results) :
                                                   results[j].success } } |->
        LET r == results[CHOOSE k \in 1..Len(results) :
                            results[k].success /\ results[k].issue_code = code]
        IN [articles |-> r.articles, pages |-> r.pages,
            skipped_articles |-> r.skipped]]

BatchInit ==
    /\ CleanIdle
    /\ TextIdle
    /\ MetsIdle
    /\ IssueIdle
    /\ DocIdle
    /\ PageIdle
    /\ ArticleIdle
    /\ bt_pc = "start"
    /\ bt_issues \in IssueItemLists
    /\ bt_max_workers \in MaxWorkersArgs
    /\ bt_cpus \in 1..MaxCpus
    /\ bt_next = 0
    /\ bt_running = <<>>
    /\ bt_done = EmptyMap
    /\ bt_results = <<>>
    /\ bt_returned = [successful |-> <<>>, failed |-> <<>>, stats |-> EmptyMap]

\* Lines 859-872: Pool(processes=max_workers) raises ValueError below 1.
BatchPool ==
    /\ bt_pc = "start"
    /\ IF WorkerCount(bt_max_workers, bt_cpus, bt_issues) < 1
       THEN bt_pc' = "raised" /\ UNCHANGED bt_running
       ELSE /\ bt_pc' = "pool"
            /\ bt_running' = [w \in 1..WorkerCount(bt_max_workers, bt_cpus, bt_issues)
                                |-> 0]
    /\ UNCHANGED <<bt_issues, bt_max_workers, bt_cpus, bt_next, bt_done, bt_results,
                   bt_returned, not_bt_vars>>

\* Line 874: a free worker process takes the next item of issue_items.
WorkerTake(w) ==
    /\ bt_pc = "pool"
    /\ bt_running[w] = 0
    /\ bt_next < Len(bt_issues)
    /\ bt_next' = bt_next + 1
    /\ bt_running' = [bt_running EXCEPT ![w] = bt_next + 1]
    /\ UNCHANGED <<bt_pc, bt_issues, bt_max_workers, bt_cpus, bt_done, bt_results,
                   bt_returned, not_bt_vars>>

\* Lines 748-778 and 832: process_issue returns from inside its try.
WorkerReturn(w) ==
    /\ bt_pc = "pool"
    /\ bt_running[w] # 0
    /\ bt_issues[bt_running[w]].behaviour # "raises"
    /\ bt_done' = (bt_running[w] :> ProcessIssueResult(bt_issues[bt_running[w]]))
                      @@ bt_done
    /\ bt_running' = [bt_running EXCEPT ![w] = 0]
    /\ UNCHANGED <<bt_pc, bt_issues, bt_max_workers, bt_cpus, bt_next, bt_results,
                   bt_returned, not_bt_vars>>

\* Lines 834-841: an exception in process_issue is caught and the failure
\* tuple returned.
WorkerCatch(w) ==
    /\ bt_pc = "pool"
    /\ bt_running[w] # 0
    /\ bt_issues[bt_running[w]].behaviour = "raises"
    /\ bt_done' = (bt_running[w] :> ProcessIssueResult(bt_issues[bt_running[w]]))
                      @@ bt_done
    /\ bt_running' = [bt_running EXCEPT ![w] = 0]
    /\ UNCHANGED <<bt_pc, bt_issues, bt_max_workers, bt_cpus, bt_next, bt_results,
                   bt_returned, not_bt_vars>>

\* Lines 873-877: list(pool.imap(...)) has the tuples in the order of the items.
BatchCollect ==
    /\ bt_pc = "pool"
    /\ DOMAIN bt_done = 1..Len(bt_issues)
    /\ bt_results' = [k \in 1..Len(bt_issues) |-> bt_done[k]]
    /\ bt_pc' = "collected"
    /\ UNCHANGED <<bt_issues, bt_max_workers, bt_cpus, bt_next, bt_running, bt_done,
                   bt_returned, not_bt_vars>>

\* Lines 879-891
BatchReturn ==
    /\ bt_pc = "collected"
    /\ bt_returned' = [successful |-> Successful(bt_results),
                       failed |-> Failed(bt_results),
                       stats |-> Stats(bt_results)]
    /\ bt_pc' = "returned"
    /\ UNCHANGED <<bt_issues, bt_max_workers, bt_cpus, bt_next, bt_running, bt_done,
                   bt_results, not_bt_vars>>

BatchNext ==
    \/ BatchPool
    \/ \E w \in DOMAIN bt_running : WorkerTake(w)
    \/ \E w \in DOMAIN bt_running : WorkerReturn(w)
    \/ \E w \in DOMAIN bt_running : WorkerCatch(w)
    \/ BatchCollect
    \/ BatchReturn

SpecBatch == BatchInit /\ [][BatchNext]_vars

\* Every worker that can take or finish an item does so, and the parent
\* collects and returns.
FairBatch ==
    /\ WF_vars(BatchPool)
    /\ WF_vars(\E w \in DOMAIN bt_running : WorkerTake(w))
    /\ WF_vars(\E w \in DOMAIN bt_running : WorkerReturn(w))
    /\ WF_vars(\E w \in DOMAIN bt_running : WorkerCatch(w))
    /\ WF_vars(BatchCollect)
    /\ WF_vars(BatchReturn)

SpecBatchFair == SpecBatch /\ FairBatch

(***************************************************************************)
(* parse_pages and process_block on one page file                          *)
(***************************************************************************)
PageInit ==
    /\ CleanIdle
    /\ TextIdle
    /\ MetsIdle
    /\ IssueIdle
    /\ DocIdle
    /\ ArticleIdle
    /\ BatchIdle
    /\ pg_pc = "file"
    /\ pg_file \in PageDocs
    /\ pg_info = EmptyMap
    /\ pg_block_id = <<>>
    /\ pg_block = NoBlock

\* page_info = parse_pages([page], tar)
PageParse ==
    /\ pg_pc = "file"
    /\ pg_info' = parse_pages(<<pg_file>>)
    /\ pg_pc' = "parsed"
    /\ UNCHANGED <<pg_file, pg_block_id, pg_block, not_pg_vars>>

\* block_data = process_block(block_id, page_info)
PageBlock(block_id) ==
    /\ pg_pc = "parsed"
    /\ pg_block_id' = block_id
    /\ IF ProcessBlockRaises(block_id, pg_info)
       THEN pg_pc' = "raised" /\ UNCHANGED pg_block
       ELSE pg_pc' = "resolved" /\ pg_block' = process_block(block_id, pg_info)
    /\ UNCHANGED <<pg_file, pg_info, not_pg_vars>>

PageNext ==
    \/ PageParse
    \/ \E block_id \in PageBlockIds : PageBlock(block_id)

SpecPage == PageInit /\ [][PageNext]_vars

(***************************************************************************)
(* C1: clean_text is idempotent: clean_text(clean_text(s)) = clean_text(s) *)
(* for every input, and clean_text(None) is the empty string.              *)
(***************************************************************************)
C1_Idempotent ==
    /\ (ct_pc # "input" /\ ct_in.kind = "none") => ct_out = <<>>
    /\ ct_pc = "recleaned" => ct_out2 = ct_out

(***************************************************************************)
(* C5: a hyphenation merge (the substituted content emitted as one word,   *)
(* the following token consumed) happens only when the current token is a  *)
(* HypPart1, the next one a HypPart2, the substituted content holds no run *)
(* of two or more hyphens and the next content is no bare run of two or    *)
(* more hyphens; "com-" (HypPart1, SUBS_CONTENT "computer") followed by    *)
(* "puter" (HypPart2) gives the single word "computer".                    *)
(***************************************************************************)
Com == <<"c", "o", "m", "-">>
Puter == <<"p", "u", "t", "e", "r">>
Computer == <<"c", "o", "m", "p", "u", "t", "e", "r">>

IsComPuter(strings) ==
    /\ Len(strings) = 2
    /\ strings[1].CONTENT = Com /\ strings[1].SUBS_TYPE = "HypPart1"
    /\ strings[1].SUBS_CONTENT = Computer
    /\ strings[2].CONTENT = Puter /\ strings[2].SUBS_TYPE = "HypPart2"

\* skip_next is set by a merge alone, and the loop has then moved past the
\* first token of the pair: block_strings[tb_i] in 1-based positions.
C5_MergeOnlyWhenGuarded ==
    /\ (tb_pc = "loop" /\ skip_next) =>
          /\ tb_i >= 1 /\ tb_i + 1 <= Len(block_strings)
          /\ block_strings[tb_i].SUBS_TYPE = "HypPart1"
          /\ block_strings[tb_i + 1].SUBS_TYPE = "HypPart2"
          /\ ~HasHyphenRun2(block_strings[tb_i].SUBS_CONTENT)
          /\ ~IsHyphenRun2(block_strings[tb_i + 1].CONTENT)
          /\ words[Len(words)] = block_strings[tb_i].SUBS_CONTENT
    /\ (tb_pc = "done" /\ IsComPuter(block_strings)) =>
          /\ words = <<Computer>>
          /\ total_string = Computer
    \* without a merge every token gives a word of its own
    /\ (tb_pc = "done" /\ Len(words) < Len(block_strings)) =>
          \E k \in 1..(Len(block_strings) - 1) :
              /\ block_strings[k].SUBS_TYPE = "HypPart1"
              /\ block_strings[k + 1].SUBS_TYPE = "HypPart2"
              /\ ~HasHyphenRun2(block_strings[k].SUBS_CONTENT)
              /\ ~IsHyphenRun2(block_strings[k + 1].CONTENT)

C5_Witness ==
    /\ tb_pc = "done"
    /\ IsComPuter(block_strings)
    /\ words = <<Computer>>

(***************************************************************************)
(* C6: a bare number (digits, at most one trailing apostrophe) tagged      *)
(* HypPart1 is emitted as the number plus one hyphen, the next token not   *)
(* consumed, exactly when the next content is hyphen-only or the next      *)
(* token is a HypPart2 whose content starts with a hyphen; in every other  *)
(* case without a merge the literal content is emitted.                    *)
(***************************************************************************)
\* A step of the loop that emits a word without merging.
PlainEmission ==
    /\ tb_pc = "loop" /\ tb_pc' = "loop"
    /\ Len(words') = Len(words) + 1
    /\ ~skip_next'

EmittedWord == words'[Len(words')]
CurrentToken == block_strings[tb_i + 1]
HasNextToken == tb_i + 2 <= Len(block_strings)
NextToken == block_strings[tb_i + 2]

HyphenOnly(content) == content # <<>> /\ HyphenRun(content, 1) = Len(content)

NumberHyphenAsClaimed ==
    /\ IsBareNumber(CurrentToken.CONTENT)
    /\ CurrentToken.SUBS_TYPE = "HypPart1"
    /\ HasNextToken
    /\ \/ HyphenOnly(NextToken.CONTENT)
       \/ NextToken.SUBS_TYPE = "HypPart2" /\ StartsWithHyphen(NextToken.CONTENT)

C6_Original ==
    [][PlainEmission =>
          IF NumberHyphenAsClaimed
          THEN EmittedWord = CurrentToken.CONTENT \o <<"-">> /\ tb_i' = tb_i + 1
          ELSE EmittedWord = CurrentToken.CONTENT]_vars

\* C6 as amended: ... exactly when the next content starts with a hyphen,
\* whatever the next token's tag and whatever follows the hyphen.
NumberHyphenAmended ==
    /\ IsBareNumber(CurrentToken.CONTENT)
    /\ CurrentToken.SUBS_TYPE = "HypPart1"
    /\ HasNextToken
    /\ StartsWithHyphen(NextToken.CONTENT)

C6_NumberHyphen ==
    [][PlainEmission =>
          IF NumberHyphenAmended
          THEN EmittedWord = CurrentToken.CONTENT \o <<"-">> /\ tb_i' = tb_i + 1
          ELSE EmittedWord = CurrentToken.CONTENT]_vars

\* "1" (HypPart1) before an untagged "-a": "1-" is emitted, "-a" is still to come.
C6_Witness ==
    /\ tb_pc = "loop"
    /\ Len(block_strings) = 2
    /\ block_strings[1].CONTENT = <<"1">> /\ block_strings[1].SUBS_TYPE = "HypPart1"
    /\ block_strings[2].CONTENT = <<"-", "a">> /\ block_strings[2].SUBS_TYPE = ""
    /\ tb_i = 1 /\ ~skip_next
    /\ words = << <<"1", "-">> >>

(***************************************************************************)
(* Helpers for the statements about mets2codes_inner                       *)
(***************************************************************************)
SequenceDone == mets_pc \in {"nontext", "stored"}

ContributionIds == {all_content_divs[k].block_id : k \in 1..Len(all_content_divs)}

NoDuplicates(seq) == \A i, j \in 1..Len(seq) : seq[i] = seq[j] => i = j

IndexOf(seq, x) == CHOOSE k \in 1..Len(seq) : seq[k] = x

FirstContribution(x) ==
    CHOOSE k \in 1..Len(all_content_divs) :
        /\ all_content_divs[k].block_id = x
        /\ \A j \in 1..(k - 1) : all_content_divs[j].block_id # x

\* The place the k-th contribution of the traversal takes when the list is
\* ordered by sequence number with ties in traversal order.
StableRank(k) ==
    1 + Cardinality({ j \in 1..Len(traversal) :
                        \/ traversal[j].order_val < traversal[k].order_val
                        \/ /\ traversal[j].order_val = traversal[k].order_val
                           /\ j < k })

(***************************************************************************)
(* C2: the order map is strictly increasing along the final content id     *)
(* list: every id of the list has a position greater than the position of  *)
(* every id before it, the ids appended by the sub-region walk included,    *)
(* also when the sequence pass saw repeated ids.                            *)
(***************************************************************************)
C2_StrictlyIncreasing ==
    SequenceDone =>
        \A i, j \in 1..Len(text_block_ids) :
            i < j => order_map[text_block_ids[i]] < order_map[text_block_ids[j]]

(***************************************************************************)
(* C3: after the sequence pass the contributions are ordered by sequence   *)
(* number with equal numbers in traversal order, and the content id list    *)
(* starts with the ids in that order; sequence numbers [3,1,1,2] over ids   *)
(* [a,b,c,d] give b,c,d,a.                                                  *)
(***************************************************************************)
IdA == <<"a">>
IdB == <<"b">>
IdC == <<"c">>
IdD == <<"d">>

C3_ExampleDivs ==
    << Contribution(IdA, OrderValue(<<"3">>)), Contribution(IdB, OrderValue(<<"1">>)),
       Contribution(IdC, OrderValue(<<"1">>)), Contribution(IdD, OrderValue(<<"2">>)) >>

C3_Example ==
    SequencePass(SortByOrder(C3_ExampleDivs), 4).ids = <<IdB, IdC, IdD, IdA>>

C3_StableOrder ==
    /\ C3_Example
    /\ SequenceDone =>
         /\ Len(all_content_divs) = Len(traversal)
         /\ \A k \in 1..Len(traversal) : all_content_divs[StableRank(k)] = traversal[k]
         /\ \A i, j \in 1..Len(all_content_divs) :
               i < j => all_content_divs[i].order_val <= all_content_divs[j].order_val
         /\ \A x, y \in ContributionIds :
               FirstContribution(x) < FirstContribution(y)
                   => IndexOf(text_block_ids, x) < IndexOf(text_block_ids, y)

\* Two different ids with the same sequence number behind a contribution with
\* a greater one, sorted.
C3_Witness ==
    /\ mets_pc = "nontext"
    /\ \E k, i, j \in 1..Len(traversal) :
          /\ k < i /\ i < j
          /\ traversal[i].order_val = traversal[j].order_val
          /\ traversal[i].block_id # traversal[j].block_id
          /\ traversal[k].order_val > traversal[i].order_val
    /\ Len(text_block_ids) >= 2

(***************************************************************************)
(* C4: no block id occurs twice in the title id list or in the content id  *)
(* list: an id with several area pointers appears once, at the place of its *)
(* first occurrence in the sorted contributions, and the walk of the        *)
(* sub-regions adds only ids that are not in the list yet, behind it.       *)
(***************************************************************************)
C4_NoDuplicateIds ==
    /\ NoDuplicates(title_block_ids)
    /\ NoDuplicates(text_block_ids)
    /\ SequenceDone =>
         /\ \A x \in ContributionIds : Contains(text_block_ids, x)
         /\ \A k \in 1..Len(text_block_ids) :
               k <= Cardinality(ContributionIds)
                   <=> text_block_ids[k] \in ContributionIds
         /\ \A k \in 1..Cardinality(ContributionIds) :
               Cardinality({ x \in ContributionIds :
                               FirstContribution(x)
                                   < FirstContribution(text_block_ids[k]) }) = k - 1
         /\ DOMAIN order_map = {text_block_ids[k] : k \in 1..Len(text_block_ids)}
    /\ \A key \in DOMAIN art_dict :
         /\ NoDuplicates(art_dict[key].title_block_ids)
         /\ NoDuplicates(art_dict[key].text_block_ids)

\* An id with two area pointers in the content pass, a title id, and an id
\* added by the walk, in a stored article.
C4_Witness ==
    /\ mets_pc = "stored"
    /\ \E i, j \in 1..Len(all_content_divs) :
          i < j /\ all_content_divs[i].block_id = all_content_divs[j].block_id
    /\ Len(title_block_ids) >= 1
    /\ Len(text_block_ids) > Cardinality(ContributionIds)

(***************************************************************************)
(* Helpers for the statements about extract_text_from_alto and             *)
(* process_issue                                                           *)
(***************************************************************************)
HasRecord(key) == \E k \in 1..Len(texts_dict) : texts_dict[k].key = key

RecordOf(key) == texts_dict[CHOOSE k \in 1..Len(texts_dict) : texts_dict[k].key = key].value

NoIds(data) == Len(data.title_block_ids) = 0 /\ Len(data.text_block_ids) = 0

\* The items of article_codes the loop has taken.
Taken == 1..art_i

Extracting == is_pc \in {"extract", "written"} \/ (is_pc = "returned" /\ art_i > 0)

AllSkipped ==
    /\ is_pc = "returned"
    /\ Len(article_codes) >= 1
    /\ art_i = Len(article_codes)
    /\ texts_dict = <<>>

C8_Original == (AllSkipped /\ parquet.written) => ~result.success

(***************************************************************************)
(* C8: when every article is skipped and the writing of the table does not *)
(* raise, process_issue writes a table without rows and reports success     *)
(* with zero articles, the number of page files and all articles skipped;   *)
(* it reports failure only when nothing was written.                        *)
(***************************************************************************)
C8_AllSkippedSucceeds ==
    /\ (AllSkipped /\ parquet.written) =>
          /\ parquet.rows = <<>>
          /\ result = IssueResult(IssueCode, TRUE, 0, Len(page_files),
                                  Len(article_codes))
    /\ (is_pc = "returned" /\ ~parquet.written) => result = IssueFailure(IssueCode)
    /\ (is_pc = "returned" /\ parquet.written) => result.success

C8_Witness ==
    /\ AllSkipped
    /\ result.success
    /\ result.articles = 0
    /\ result.skipped = 2

(***************************************************************************)
(* C9: an article whose title id list and content id list are both empty   *)
(* has no record and is counted as skipped, the articles behind it are      *)
(* still taken, and the articles of the mapping are the extracted ones plus *)
(* the skipped ones.                                                        *)
(***************************************************************************)
C9_SkippedCounted ==
    /\ Extracting =>
          /\ Len(texts_dict) + skipped_articles = art_i
          /\ skipped_articles = Cardinality({k \in Taken : NoIds(article_codes[k].value)})
          /\ \A k \in Taken :
                NoIds(article_codes[k].value) => ~HasRecord(article_codes[k].key)
          /\ \A k \in Taken :
                ~NoIds(article_codes[k].value) => HasRecord(article_codes[k].key)
    /\ is_pc \in {"written", "returned"} /\ art_i > 0 => art_i = Len(article_codes)
    /\ (is_pc = "returned" /\ result.success) =>
          /\ result.articles + result.skipped = Len(article_codes)
          /\ result.skipped = skipped_articles
          /\ result.articles = Len(texts_dict)

\* A skipped article in front of an extracted one.
C9_Witness ==
    /\ is_pc = "returned"
    /\ result.success
    /\ Len(article_codes) = 2
    /\ NoIds(article_codes[1].value)
    /\ HasRecord(article_codes[2].key)
    /\ result.skipped = 1

(***************************************************************************)
(* C10: in every record the body block ids are in non-decreasing order-map *)
(* position (999 for an id the map lacks), ids of equal position in the     *)
(* order of the content id list, and the body text and arrays are the data  *)
(* of the resolved blocks put together in that order; two TEXT divs of      *)
(* sequence 2 and 1 on B1 and B2 give the map B2->0, B1->1 and the words of *)
(* B2 in front of those of B1.                                              *)
(***************************************************************************)
\* The data of the blocks of ids one behind the other, in the order of ids.
RECURSIVE InOrder(_, _)
InOrder(ids, n) ==
    IF n = 0 THEN EmptyData
    ELSE Extend(InOrder(ids, n - 1), process_block(ids[n], page_info).data)

BothPages == parse_pages(<<PageFile("root", Page1, DefaultNsmap),
                          PageFile("root", Page2, DefaultNsmap)>>)

C10_Sentinel ==
    /\ process_content_blocks(<<P1_TB1, P2_TB1>>, BothPages, (P2_TB1 :> 0))
           .data.processed_block_ids = <<P2_TB1, P1_TB1>>
    /\ process_content_blocks(<<P1_TB1, P2_TB1>>, BothPages, (P2_TB1 :> 0))
           .block_order_positions = <<0, 999>>
    /\ process_content_blocks(<<P1_TB1, P2_TB1>>, BothPages, EmptyMap)
           .data.processed_block_ids = <<P1_TB1, P2_TB1>>

C10_BodyInMapOrder ==
    /\ C10_Sentinel
    /\ \A k \in Taken :
         HasRecord(article_codes[k].key) =>
           LET rec == RecordOf(article_codes[k].key)
               data == article_codes[k].value
               ids == rec.block_ids
               blocks == InOrder(ids, Len(ids))
           IN /\ NoDuplicates(ids)
              /\ \A id \in MetsBlockIds \cup {P1_TB3, P1_TB7, TB9, P1_X1, P9_TB1} :
                    Contains(ids, id) <=>
                       /\ Contains(data.text_block_ids, id)
                       /\ process_block(id, page_info).found
              /\ \A i, j \in 1..Len(ids) :
                    i < j =>
                      /\ Position(data.order_map, ids[i]) <= Position(data.order_map, ids[j])
                      /\ Position(data.order_map, ids[i]) = Position(data.order_map, ids[j])
                           => IndexOf(data.text_block_ids, ids[i])
                                < IndexOf(data.text_block_ids, ids[j])
              /\ rec.text = clean_text(Str(JoinSpace(blocks.text_blocks)))
              /\ rec.word_confidences = blocks.word_confidences
              /\ rec.line_widths = blocks.line_widths
              /\ rec.line_heights = blocks.line_heights
              /\ rec.line_hpos = blocks.line_hpos
              /\ rec.line_vpos = blocks.line_vpos
              /\ rec.block_hpos = blocks.block_hpos
              /\ rec.block_vpos = blocks.block_vpos
              /\ rec.block_widths = blocks.block_widths
              /\ rec.block_heights = blocks.block_heights
              /\ (data.text_block_ids = <<P2_TB1, P1_TB1>> /\ ids = <<P2_TB1, P1_TB1>>) =>
                    /\ data.order_map = (P2_TB1 :> 0) @@ (P1_TB1 :> 1)
                    /\ rec.text = <<"c", "o", "m", "p", "u", "t", "e", "r", " ",
                                    "o", "n", "e", " ", "-">>

\* The two TEXT divs of sequence 2 and 1, and an article whose walk gives a
\* table block a position in front of a block of the sequence pass.
C10_Witness ==
    /\ is_pc = "returned"
    /\ result.success
    /\ \E k \in 1..Len(texts_dict) :
          texts_dict[k].value.block_ids = <<P2_TB1, P1_TB1>>
    /\ \E k \in 1..Len(texts_dict), j \in 1..Len(article_codes) :
          /\ texts_dict[k].key = article_codes[j].key
          /\ texts_dict[k].value.block_ids = <<P2_TB1, P1_TB1, P1_CB2>>
          /\ article_codes[j].value.text_block_ids = <<P2_TB1, P1_CB2, P1_TB1>>

(***************************************************************************)
(* C11: a block id whose area pointers all lie in divs of an excluded type *)
(* (ILLUSTRATION, IMAGE, CAPTION) is neither in the content id list nor in  *)
(* the order map of the article, also when the excluded div is nested in a  *)
(* TABLE.                                                                   *)
(***************************************************************************)
\* The types of the divs that hold an area pointer to the id.
HoldersOf(id) ==
    { DivsWithin(mets_doc.children)[k].TYPE :
        k \in { j \in 1..Len(DivsWithin(mets_doc.children)) :
                  Contains(OwnAreas(<<DivsWithin(mets_doc.children)[j]>>), id) } }

OnlyInExcluded(id) ==
    HoldersOf(id) # {} /\ HoldersOf(id) \subseteq ExcludeContentTypes

C11_ExcludedNeverListed ==
    doc_pc = "returned" =>
        \A id \in MetsBlockIds :
            OnlyInExcluded(id) =>
                \A k \in 1..Len(doc_codes) :
                    /\ ~Contains(doc_codes[k].value.text_block_ids, id)
                    /\ id \notin DOMAIN doc_codes[k].value.order_map

(***************************************************************************)
(* C12: after parse_pages has loaded a page, the key 'alto' of its         *)
(* namespace map is (a) the URI of the default namespace when one is       *)
(* declared, (b) otherwise a declared URI that contains 'alto' in any      *)
(* case, (c) otherwise the fallback URI, whatever prefixed namespaces are  *)
(* declared; every other declared namespace is kept under its own prefix.  *)
(***************************************************************************)
PageLoaded == pg_pc # "file" /\ PageKey(1) \in DOMAIN pg_info

HasDefaultNs(nsmap) == \E k \in 1..Len(nsmap) : nsmap[k].prefix = NonePrefix

AltoUris(nsmap) ==
    { nsmap[k].uri : k \in { j \in 1..Len(nsmap) :
                               HasSubstring(Lower(nsmap[j].uri), AltoKey) } }

C12_AliasByPriority ==
    PageLoaded =>
        LET declared == pg_file.nsmap
            got == pg_info[PageKey(1)].xpath_nsmap
            alias == UriOf(got, AltoKey)
        IN /\ HasDefaultNs(declared) => alias = UriOf(declared, NonePrefix)
           /\ ~HasDefaultNs(declared) /\ AltoUris(declared) # {}
                  => alias \in AltoUris(declared)
           /\ ~HasDefaultNs(declared) /\ AltoUris(declared) = {}
                  => alias = FallbackUri
           /\ \A k \in 1..Len(declared) :
                  declared[k].prefix \notin {NonePrefix, AltoKey}
                      => UriOf(got, declared[k].prefix) = declared[k].uri

\* The same without a declared prefix named 'alto'.
C12_NoAltoPrefix ==
    (\A k \in 1..Len(pg_file.nsmap) : pg_file.nsmap[k].prefix # AltoKey)
        => C12_AliasByPriority

(***************************************************************************)
(* C13: a page that declares the OCR schema as its default namespace and a *)
(* page of the same content that declares it under a prefix give the same  *)
(* process_block result (text, confidences, geometry, block id) for every  *)
(* block id.                                                               *)
(***************************************************************************)
\* The content of a parsed root without the namespace of its elements.
ContentOf(root) ==
    [k \in 1..Len(root) |->
        Block(root[k].kind, root[k].ID, root[k].box, root[k].strings, root[k].lines)]

PrefixedNsmap == <<Namespace(XlinkPrefix, XlinkUri), Namespace(AltoKey, AltoUri)>>

\* The same content under the one declaration and under the other.
AsDefault(file) ==
    PageFile("root", Qualified(ContentOf(file.root), DefaultNsmap, NonePrefix),
             DefaultNsmap)

AsPrefixed(file) ==
    PageFile("root", Qualified(ContentOf(file.root), PrefixedNsmap, AltoKey),
             PrefixedNsmap)

UsesDefaultNs(file) ==
    /\ HasDefaultNs(file.nsmap)
    /\ \A k \in 1..Len(file.root) : file.root[k].prefix = NonePrefix

UsesPrefixedNs(file) ==
    \A k \in 1..Len(file.root) :
        /\ file.root[k].prefix # NonePrefix
        /\ HasSubstring(Lower(file.root[k].ns), AltoKey)

C13_SameUnderEitherDeclaration ==
    pg_pc = "resolved" /\ (UsesDefaultNs(pg_file) \/ UsesPrefixedNs(pg_file)) =>
        /\ pg_block = process_block(pg_block_id, parse_pages(<<AsDefault(pg_file)>>))
        /\ pg_block = process_block(pg_block_id, parse_pages(<<AsPrefixed(pg_file)>>))

\* A block found on a page that declares the schema under a prefix.
C13_Witness ==
    /\ pg_pc = "resolved"
    /\ UsesPrefixedNs(pg_file)
    /\ pg_block_id = P1_TB1
    /\ pg_block.found
    /\ pg_block.data.text_blocks # <<>>

(***************************************************************************)
(* C14: a page that fails to parse is left out of page_info and the issue  *)
(* goes on: every page that parses has a handle under its own 1-based      *)
(* index, whatever pages before it failed, and process_issue fails at this *)
(* point only when no page parses.                                         *)
(***************************************************************************)
ParsedPages == { k \in 1..Len(page_files) : page_files[k].parsed = "root" }

C14_FailedPageSkipped ==
    [][ is_pc = "pages" =>
          IF ParsedPages = {}
          THEN is_pc' = "returned" /\ ~result'.success
          ELSE /\ is_pc' = "extract"
               /\ DOMAIN page_info' = { PageKey(k) : k \in ParsedPages }
               /\ \A k \in ParsedPages :
                      page_info'[PageKey(k)].root = page_files[k].root ]_vars

\* The same when the pages that fail all raise XMLSyntaxError.
C14_SyntaxErrorSkipped ==
    [][ is_pc = "pages" /\ ~ParsePagesRaises(page_files) =>
          IF ParsedPages = {}
          THEN is_pc' = "returned" /\ ~result'.success
          ELSE /\ is_pc' = "extract"
               /\ DOMAIN page_info' = { PageKey(k) : k \in ParsedPages }
               /\ \A k \in ParsedPages :
                      page_info'[PageKey(k)].root = page_files[k].root ]_vars

(***************************************************************************)
(* C15: a block id that does not resolve (no page-prefix pattern, no       *)
(* handle for its page, neither block-kind marker, no element with the id) *)
(* contributes nothing and leaves the others alone: the processed block    *)
(* ids are exactly the resolvable ids of the list, and the data is what    *)
(* the list without the unresolvable ids gives.                            *)
(***************************************************************************)
Unresolvable(id, pages) ==
    \/ ~PageMatch(id)
    \/ PageNo(id) \notin DOMAIN pages
    \/ ~HasSubstring(id, <<"T", "B">>) /\ ~HasSubstring(id, <<"C", "B">>)
    \/ /\ PageMatch(id)
       /\ PageNo(id) \in DOMAIN pages
       /\ \A k \in 1..Len(pages[PageNo(id)].root) : pages[PageNo(id)].root[k].ID # id

ResolvableIds(ids) ==
    LET Resolves(id) == ~Unresolvable(id, ArticlePages)
    IN SelectSeq(ids, Resolves)

Count(seq, x) == Cardinality({ k \in 1..Len(seq) : seq[k] = x })

C15_UnresolvableIgnored ==
    /\ ar_pc \in {"title", "content", "record"} =>
          /\ ar_title_data.processed_block_ids = ResolvableIds(ar_data.title_block_ids)
          /\ ar_title_data
                 = process_title_blocks(ResolvableIds(ar_data.title_block_ids),
                                        ArticlePages)
    /\ ar_pc \in {"content", "record"} =>
          /\ \A id \in ArticleTextIds :
                 Count(ar_content_data.data.processed_block_ids, id)
                     = Count(ResolvableIds(ar_data.text_block_ids), id)
          /\ ar_content_data
                 = process_content_blocks(ResolvableIds(ar_data.text_block_ids),
                                          ArticlePages, ar_data.order_map)

\* A content list with a resolvable id before an unresolvable one.
C15_Witness ==
    /\ ar_pc = "content"
    /\ ar_data.text_block_ids = <<P1_TB1, P1_TB7>>
    /\ ar_data.title_block_ids = <<P1_TB7, P1_TB3>>
    /\ ar_content_data.data.processed_block_ids = <<P1_TB1>>
    /\ ar_title_data.processed_block_ids = <<P1_TB3>>

(***************************************************************************)
(* C16: in process_block each of HPOS, VPOS, WIDTH and HEIGHT, of the      *)
(* block and of each of its lines, is coerced on its own: it is the        *)
(* truncation of its float when that parses and zero when it does not, and *)
(* a failing coercion never ends process_block with an exception.          *)
(***************************************************************************)
\* int(float(value)), or zero when the value does not parse.
Coerced(value) == IF ParseFloat(value).ok THEN ParseFloat(value).value \div 100 ELSE 0

\* The element of the page the id of the call names.
CalledBlock == CHOOSE el \in {pg_file.root[k] : k \in 1..Len(pg_file.root)} :
                   el.ID = pg_block_id

BlockCalled ==
    /\ pg_pc \in {"resolved", "raised"}
    /\ \E k \in 1..Len(pg_file.root) : pg_file.root[k].ID = pg_block_id

C16_EachValueOnItsOwn ==
    BlockCalled =>
        /\ pg_pc # "raised"
        /\ pg_block.found
        /\ pg_block.data.block_hpos = <<Coerced(CalledBlock.box.HPOS)>>
        /\ pg_block.data.block_vpos = <<Coerced(CalledBlock.box.VPOS)>>
        /\ pg_block.data.block_widths = <<Coerced(CalledBlock.box.WIDTH)>>
        /\ pg_block.data.block_heights = <<Coerced(CalledBlock.box.HEIGHT)>>
        /\ pg_block.data.line_hpos
               = [k \in 1..Len(CalledBlock.lines) |-> Coerced(CalledBlock.lines[k].HPOS)]
        /\ pg_block.data.line_vpos
               = [k \in 1..Len(CalledBlock.lines) |-> Coerced(CalledBlock.lines[k].VPOS)]
        /\ pg_block.data.line_widths
               = [k \in 1..Len(CalledBlock.lines) |-> Coerced(CalledBlock.lines[k].WIDTH)]
        /\ pg_block.data.line_heights
               = [k \in 1..Len(CalledBlock.lines) |-> Coerced(CalledBlock.lines[k].HEIGHT)]

\* What holds instead: the four values of an element are coerced together,
\* all four are zero when one of them raises ValueError.
AllParse(el) ==
    /\ ParseFloat(el.HPOS).ok
    /\ ParseFloat(el.VPOS).ok
    /\ ParseFloat(el.WIDTH).ok
    /\ ParseFloat(el.HEIGHT).ok

Together(el, value) == IF AllParse(el) THEN Coerced(value) ELSE 0

C16_CoercedTogether ==
    BlockCalled /\ pg_pc = "resolved" =>
        /\ pg_block.found
        /\ pg_block.data.block_hpos
               = <<Together(CalledBlock.box, CalledBlock.box.HPOS)>>
        /\ pg_block.data.block_widths
               = <<Together(CalledBlock.box, CalledBlock.box.WIDTH)>>
        /\ pg_block.data.line_heights
               = [k \in 1..Len(CalledBlock.lines) |->
                    Together(CalledBlock.lines[k], CalledBlock.lines[k].HEIGHT)]

(***************************************************************************)
(* C17: the title text of an article record is the normalized              *)
(* concatenation of the words of the resolved title blocks, in the order   *)
(* of the title ids as given, when at least one title word was resolved,   *)
(* and the normalized declared title of the structural document otherwise. *)
(***************************************************************************)
\* The words of the block with that id on the pages of the article.
WordsOf(id) ==
    LET root == ArticlePages[PageNo(id)].root
        el == CHOOSE e \in {root[k] : k \in 1..Len(root)} : e.ID = id
    IN IF el.strings = <<>> THEN <<>>
       ELSE TextRun(el.strings, TextLoopStart).words

RECURSIVE WordsOfAll(_, _)
WordsOfAll(ids, n) ==
    IF n = 0 THEN <<>> ELSE WordsOfAll(ids, n - 1) \o WordsOf(ids[n])

TitleWords ==
    WordsOfAll(ResolvableIds(ar_data.title_block_ids),
               Len(ResolvableIds(ar_data.title_block_ids)))

C17_TitleText ==
    ar_pc = "record" =>
        ar_record[1].title_text
            = IF TitleWords # <<>>
              THEN clean_text(Str(JoinSpace(TitleWords)))
              ELSE clean_text(Str(ar_data.title))

\* Two title blocks with words, the later page first.
C17_Witness ==
    /\ ar_pc = "record"
    /\ ar_data.title_block_ids = <<P2_TB1, P1_TB3>>
    /\ ar_record[1].title_text
           = <<"c", "o", "m", "p", "u", "t", "e", "r", " ", "H", "i">>

(***************************************************************************)
(* C18: after clean_text a bare number with a trailing hyphen (digits, an  *)
(* optional apostrophe, a hyphen) that is followed by a hyphen run abuts   *)
(* that run: the result never holds such a number-hyphen, whitespace, and  *)
(* then a hyphen.                                                          *)
(***************************************************************************)
\* Digits, an optional apostrophe and a hyphen end at position i - 1, and
\* whitespace stands between them and a hyphen.
NumberHyphenApartAt(s, i) ==
    /\ i >= 3
    /\ s[i - 1] = "-"
    /\ \/ IsDigit(s[i - 2])
       \/ i >= 4 /\ s[i - 2] = "'" /\ IsDigit(s[i - 3])
    /\ SpaceRun(s, i) >= 1
    /\ HyphenRun(s, i + SpaceRun(s, i)) >= 1

Cleaned == ct_pc \in {"cleaned", "recleaned"} /\ ct_in.kind = "str"

C18_NumberHyphenAbuts ==
    Cleaned => \A i \in 1..Len(ct_out) : ~NumberHyphenApartAt(ct_out, i)

(***************************************************************************)
(* C19: a run of k >= 2 hyphens with a word character right before and     *)
(* right after it is in the result of clean_text with the same length k    *)
(* between the same two characters.                                        *)
(***************************************************************************)
IsWordChar(c) == IsDigit(c) \/ c \in {"a", "_", "H", "Y", "P", "E", "N"}

\* A run of exactly k hyphens follows the word character at i and a word
\* character follows the run.
WordRunAt(s, i, k) ==
    /\ i + k + 1 <= Len(s)
    /\ IsWordChar(s[i])
    /\ HyphenRun(s, i + 1) = k
    /\ IsWordChar(s[i + k + 1])

C19_RunPreserved ==
    Cleaned =>
        \A i \in 1..Len(ct_in.chars), k \in 2..Len(ct_in.chars) :
            WordRunAt(ct_in.chars, i, k) =>
                \E j \in 1..Len(ct_out) :
                    /\ WordRunAt(ct_out, j, k)
                    /\ ct_out[j] = ct_in.chars[i]
                    /\ ct_out[j + k + 1] = ct_in.chars[i + k + 1]

\* The same for a text that does not open with marker text.
C19_PlainText ==
    ~HasPrefixAt(ct_in.chars, 1, HyphenMarkerHead) => C19_RunPreserved

(***************************************************************************)
(* C20: in process_text_block the confidence list holds one value per      *)
(* emitted word, in emission order, at every step and at return: each pass *)
(* of the loop that emits a word appends the WC of the token it reads (0   *)
(* when the WC does not parse), a hyphenation merge appends that of the    *)
(* first token only, and the pass over the consumed second token appends   *)
(* nothing.                                                                *)
(***************************************************************************)
\* float(wc) in hundredths, 0.0 when it does not parse.
ConfidenceOf(token) ==
    IF ParseFloat(token.WC).ok THEN ParseFloat(token.WC).value ELSE 0

OnePerWord == Len(word_confidences) = Len(words)

PassOfLoop ==
    tb_pc = "loop" /\ tb_i' = tb_i + 1 =>
        IF skip_next
        THEN words' = words /\ word_confidences' = word_confidences
        ELSE /\ Len(words') = Len(words) + 1
             /\ word_confidences'
                    = Append(word_confidences, ConfidenceOf(block_strings[tb_i + 1]))

C20_OneConfidencePerWord == []OnePerWord /\ [][PassOfLoop]_vars

\* A merge of two tokens: one word, with the confidence of the first token.
C20_Witness ==
    /\ tb_pc = "done"
    /\ Len(block_strings) = 2
    /\ block_strings[1].WC = <<"x">>
    /\ block_strings[2].WC = <<"0", ".", "9">>
    /\ words = <<block_strings[1].SUBS_CONTENT>>
    /\ block_strings[1].SUBS_CONTENT # block_strings[1].CONTENT
    /\ word_confidences = <<0>>

(***************************************************************************)
(* C21: batch_process_issues gives exactly one result per submitted issue, *)
(* each issue is in exactly one of the successful and the failed list, and *)
(* statistics are recorded exactly for the successful ones; an error in    *)
(* one issue becomes the failure result of that issue alone and, whatever  *)
(* the interleaving of the workers, never keeps the other issues from      *)
(* being processed and reported: the call always returns.                  *)
(***************************************************************************)
CodesOf(seq) == { seq[k] : k \in 1..Len(seq) }

OneResultPerIssue ==
    bt_pc = "returned" =>
        /\ Len(bt_results) = Len(bt_issues)
        /\ \A k \in 1..Len(bt_issues) :
              /\ bt_results[k].issue_code = bt_issues[k].code
              /\ bt_results[k].success = (bt_issues[k].behaviour = "success")
              /\ IF bt_issues[k].behaviour = "success"
                 THEN /\ Count(bt_returned.successful, bt_issues[k].code) = 1
                      /\ Count(bt_returned.failed, bt_issues[k].code) = 0
                      /\ bt_issues[k].code \in DOMAIN bt_returned.stats
                 ELSE /\ Count(bt_returned.successful, bt_issues[k].code) = 0
                      /\ Count(bt_returned.failed, bt_issues[k].code) = 1
                      /\ bt_issues[k].code \notin DOMAIN bt_returned.stats
        /\ Len(bt_returned.successful) + Len(bt_returned.failed) = Len(bt_issues)
        /\ DOMAIN bt_returned.stats = CodesOf(bt_returned.successful)

C21_EveryIssueReported ==
    /\ []OneResultPerIssue
    /\ [](bt_pc # "raised")
    /\ <>(bt_pc = "returned")

\* The same for a call whose pool has at least one worker process.
C21_WithAWorker ==
    /\ []OneResultPerIssue
    /\ (WorkerCount(bt_max_workers, bt_cpus, bt_issues) >= 1 => <>(bt_pc = "returned"))

(***************************************************************************)
(* C22: process_text_block terminates for every token sequence and takes   *)
(* every token once, in order: a pass emits exactly one word for its token *)
(* or passes over the second token of a merge, so the words are as many as *)
(* the tokens less the merges, and a token is passed over only after a     *)
(* merge of the HypPart1 token before it.                                  *)
(***************************************************************************)
\* The passes from st on that end with skip_next set.
RECURSIVE MergesFrom(_, _)
MergesFrom(strings, st) ==
    IF st.i < Len(strings)
    THEN (IF TextStep(strings, st).skip_next THEN 1 ELSE 0)
         + MergesFrom(strings, TextStep(strings, st))
    ELSE 0

EveryTokenCounted ==
    tb_pc = "done" =>
        /\ tb_i = Len(block_strings)
        /\ ~skip_next
        /\ Len(words) = Len(block_strings) - MergesFrom(block_strings, TextLoopStart)

OneTokenPerPass ==
    tb_pc = "loop" /\ tb_pc' = "loop" =>
        /\ tb_i' = tb_i + 1
        /\ tb_i' <= Len(block_strings)
        /\ IF skip_next
           THEN words' = words /\ ~skip_next'
           ELSE Len(words') = Len(words) + 1
        /\ skip_next' =>
              /\ block_strings[tb_i + 1].SUBS_TYPE = "HypPart1"
              /\ tb_i + 2 <= Len(block_strings)
              /\ block_strings[tb_i + 2].SUBS_TYPE = "HypPart2"
              /\ block_strings[tb_i + 1].SUBS_CONTENT # <<>>
              /\ words' = Append(words, block_strings[tb_i + 1].SUBS_CONTENT)

C22_TerminatesCountingTokens ==
    /\ []EveryTokenCounted
    /\ [][OneTokenPerPass]_vars
    /\ (tb_pc = "loop" ~> tb_pc = "done")

\* A first half that is not merged: the token after it is emitted as well.
C22_Witness ==
    /\ tb_pc = "done"
    /\ Len(block_strings) = 2
    /\ block_strings[1].SUBS_TYPE = "HypPart1"
    /\ block_strings[1].SUBS_CONTENT = <<>>
    /\ block_strings[2].SUBS_TYPE = "HypPart2"
    /\ words = <<block_strings[1].CONTENT, block_strings[2].CONTENT>>

(***************************************************************************)
(* C23: clean_text neither adds nor removes hyphens: its result holds as   *)
(* many "-" characters as the text it was given, also where a number is    *)
(* followed by whitespace and then by hyphens.                             *)
(***************************************************************************)
HyphenCount(s) == Count(s, "-")

\* Digits and an optional apostrophe, then whitespace, then a hyphen.
NumberSpaceHyphenAt(s, i) ==
    /\ i >= 2
    /\ \/ IsDigit(s[i - 1])
       \/ i >= 3 /\ s[i - 1] = "'" /\ IsDigit(s[i - 2])
    /\ SpaceRun(s, i) >= 1
    /\ HyphenRun(s, i + SpaceRun(s, i)) >= 1

C23_HyphenCountKept ==
    Cleaned => HyphenCount(ct_out) = HyphenCount(ct_in.chars)

\* Away from a number, whitespace and a hyphen in a row the count is kept.
C23_KeptWithoutNumberSpaceHyphen ==
    Cleaned /\ (\A i \in 1..Len(ct_in.chars) : ~NumberSpaceHyphenAt(ct_in.chars, i))
            /\ (\A i \in 1..Len(ct_in.chars) : ct_in.chars[i] # "_")
        => HyphenCount(ct_out) = HyphenCount(ct_in.chars)

====
